---------------------------- MODULE Spec2Model ----------------------------
(***************************************************************************)
(* A model of plugin-showmejm: the JM client (mirror failover, scramble    *)
(* number, image descrambling), the batch downloader and the PDF stage.    *)
(*                                                                         *)
(* Each component has its own specification over the shared variables;     *)
(* the variables of the other components keep their initial value.         *)
(*   SpecScramble : JMClient.GetScrambleNum                                *)
(*   SpecDecode   : the strip loop of JMClient.DecodeScrambledImage        *)
(*   SpecFetch    : JMClient.GetComicDetail / fetchComicDetail             *)
(*   SpecDownload : Downloader.DownloadComic / downloadChapter             *)
(*   SpecPDF      : PDFGenerator.CreatePDF / encryptPDF                    *)
(*                                                                         *)
(* Strings whose characters matter (ids, file names) are sequences of      *)
(* one-character strings.                                                  *)
(***************************************************************************)
EXTENDS Integers, Sequences, FiniteSets, TLC

VARIABLES
    scr,        \* GetScrambleNum: inputs, md5 input and digest, result
    dec,        \* DecodeScrambledImage: height, segment count, loop index, rows
    cli,        \* JMClient: domains, baseURL
    get,        \* GetComicDetail: the range loop, the attempts made, the result
    cfg,        \* Config: PDFMaxPages, PDFPassword
    fs,         \* the .pdf and .pdf.encrypted files of the work directory
    pdf,        \* CreatePDF: the chunk loop, encryptPDF's position, the result
    comic,      \* the Comic handed to DownloadComic
    dir,        \* the image files of the download directory
    dl,         \* DownloadComic: the chapter loop, the counters, the result
    chp,        \* downloadChapter: the goroutines, images, errors
    jobs,       \* the downloadComic goroutines started by OnCommand
    page,       \* createSinglePDF: the page size computed for one image
    mpc,        \* GetMaxPage: the clock, maxPageCache, the call in progress
    dom,        \* the client's domains, baseURL and mu, one writer, one reader
    chk,        \* CheckDomains: the result map, its mutex, the probe tasks
    tag,        \* fetchComicDetail: the loop over the anchors of the genre block
    srch,       \* SearchComics: the request made, the result
    bs,         \* GetMaxPage: one call past the cache lookup, its probes, the cache entry
    cht,        \* downloadChapter: its tasks by position, the semaphore, the mutex
    gci,        \* getChapterImages: page_arr, the sorted names, the URLs built
    doc,        \* createSinglePDF: the image loop, the pages of the document
    wl          \* Config: PersonWhitelist, GroupWhitelist, the last change made

vars ==
    <<scr, dec, cli, get, cfg, fs, pdf, comic, dir, dl, chp, jobs, page, mpc, dom,
      chk, tag,
      srch,
      bs,
      cht,
      gci,
      doc,
      wl>>

None == "none"

(***************************************************************************)
(* Characters, strconv.Atoi, fmt.Sprintf("%d")                             *)
(***************************************************************************)
DigitChars == <<"0", "1", "2", "3", "4", "5", "6", "7", "8", "9">>

IsDigit(c) == \E d \in 1..10 : DigitChars[d] = c

DigitVal(c) == (CHOOSE d \in 1..10 : DigitChars[d] = c) - 1

RECURSIVE DigitsValue(_)
DigitsValue(s) ==
    IF s = <<>> THEN 0
    ELSE 10 * DigitsValue(SubSeq(s, 1, Len(s) - 1)) + DigitVal(s[Len(s)])

\* strconv.Atoi with its error dropped: a syntax error yields 0.
Atoi(s) ==
    IF s = <<>> \/ (\E i \in 1..Len(s) : ~IsDigit(s[i])) THEN 0
    ELSE DigitsValue(s)

RECURSIVE Itoa(_)
\* fmt.Sprintf("%d", n) for n >= 0
Itoa(n) ==
    IF n < 10 THEN <<DigitChars[n + 1]>>
    ELSE Itoa(n \div 10) \o <<DigitChars[(n % 10) + 1]>>

(***************************************************************************)
(* GetScrambleNum                                                          *)
(***************************************************************************)
SCRAMBLE_220980 == 220980
SCRAMBLE_268850 == 268850
SCRAMBLE_421926 == 421926

\* hex.EncodeToString writes each byte as two characters of this table.
HexTable == <<"0", "1", "2", "3", "4", "5", "6", "7", "8", "9",
              "a", "b", "c", "d", "e", "f">>

\* int(c) for a character of HexTable: its ASCII code.
AsciiCode(c) ==
    IF IsDigit(c) THEN 48 + DigitVal(c)
    ELSE 97 + ((CHOOSE i \in 11..16 : HexTable[i] = c) - 11)

\* hashHex[len(hashHex)-1]: the last character of the hex encoding of a
\* digest whose final byte is lastByte.
HexLastChar(lastByte) == HexTable[(lastByte % 16) + 1]

\* The string handed to md5.Sum.
Md5Input(photoID, filename) == Itoa(Atoi(photoID)) \o filename

\* Does the call reach the md5 branch?
UsesHash(scrambleID, photoID) ==
    /\ ~(Atoi(photoID) < Atoi(scrambleID))
    /\ ~(Atoi(photoID) < SCRAMBLE_268850)

ScrambleNumWrongModulus(scrambleID, photoID, lastByte) ==
    LET aid == Atoi(photoID)
    IN  IF aid < Atoi(scrambleID) THEN 0
        ELSE IF aid < SCRAMBLE_268850 THEN 10
        ELSE LET x == IF aid > SCRAMBLE_421926 THEN 8 ELSE 10
             IN  (AsciiCode(HexLastChar(lastByte)) % x) * 2 + 2

ScrambleNumLegacyOff(scrambleID, photoID, lastByte) ==
    LET aid == Atoi(photoID)
    IN  IF aid <= Atoi(scrambleID) THEN 0
        ELSE IF aid <= SCRAMBLE_268850 THEN 10
        ELSE LET x == IF aid >= SCRAMBLE_421926 THEN 8 ELSE 10
             IN  (AsciiCode(HexLastChar(lastByte)) % x) * 2 + 2

\* The value GetScrambleNum returns; lastByte is the final byte of
\* md5.Sum(Md5Input(photoID, filename)).
ScrambleNum(scrambleID, photoID, lastByte) ==
    LET aid == Atoi(photoID)
    IN  IF aid < Atoi(scrambleID) THEN 0
        ELSE IF aid < SCRAMBLE_268850 THEN 10
        ELSE LET x == IF aid >= SCRAMBLE_421926 THEN 8 ELSE 10
             IN  (AsciiCode(HexLastChar(lastByte)) % x) * 2 + 2

\* Inputs: scramble markers, chapter ids and file names.
ScrambleIDs == { <<>>,
                 <<"2", "2", "0", "9", "8", "0">>,
                 <<"2", "6", "8", "8", "5", "0">>,
                 <<"3", "0", "0", "0", "0", "0">>,
                 <<"5", "0", "0", "0", "0", "0">> }

PhotoIDs == { <<"a", "b">>,
              <<"0", "2", "2", "0", "9", "7", "9">>,
              <<"2", "2", "0", "9", "8", "0">>,
              <<"2", "6", "8", "8", "4", "9">>,
              <<"2", "6", "8", "8", "5", "0">>,
              <<"3", "0", "0", "0", "0", "0">>,
              <<"4", "2", "1", "9", "2", "5">>,
              <<"4", "2", "1", "9", "2", "6">>,
              <<"5", "0", "0", "0", "0", "1">> }

Filenames == { <<"0", "0", "0", "0", "1", ".", "w", "e", "b", "p">>,
               <<"2", ".", "j", "p", "g">> }

\* The final byte of an md5 digest.
Bytes == 0..255

ScrInit ==
    \E sid \in ScrambleIDs, pid \in PhotoIDs, fn \in Filenames :
        scr = [pc |-> "call", scrambleID |-> sid, photoID |-> pid,
               filename |-> fn, hashed |-> FALSE, md5in |-> <<>>,
               lastByte |-> 0, num |-> 0]

ScrIdle == scr = [pc |-> "off"]

\* The other components do not move during a step of this one.
ScrOnly ==
    UNCHANGED <<dec, cli, get, cfg, fs, pdf, comic, dir, dl, chp, jobs, page, mpc, dom,
                chk,
                tag,
                srch,
                bs,
                cht,
                gci,
                doc,
                wl>>

\* The branches that return without hashing.
GetScrambleNumPlain ==
    /\ scr.pc = "call"
    /\ ~UsesHash(scr.scrambleID, scr.photoID)
    /\ scr' = [scr EXCEPT !.pc = "done",
                          !.num = ScrambleNum(scr.scrambleID, scr.photoID, 0)]
    /\ ScrOnly

\* The md5 branch; the digest of the input is any 16 bytes, of which only
\* the last is read.
GetScrambleNumHash ==
    /\ scr.pc = "call"
    /\ UsesHash(scr.scrambleID, scr.photoID)
    /\ \E b \in Bytes :
        scr' = [scr EXCEPT !.pc = "done",
                           !.hashed = TRUE,
                           !.md5in = Md5Input(scr.photoID, scr.filename),
                           !.lastByte = b,
                           !.num = ScrambleNum(scr.scrambleID, scr.photoID, b)]
    /\ ScrOnly

ScrNext == GetScrambleNumPlain \/ GetScrambleNumHash

(***************************************************************************)
(* DecodeScrambledImage: the strip loop                                    *)
(***************************************************************************)
MaxHeight == 12
MaxSegments == 10

\* The segment counts GetScrambleNum returns for a scrambled image:
\* 10, or (v mod x) * 2 + 2.
SegmentCounts == {n \in 2..MaxSegments : n % 2 = 0}

\* A row of the result that no draw has written yet (image.NewRGBA).
Blank == -1

\* Rows are numbered 0..height-1 as in the code; rows[y + 1] is the row of
\* the served image that result row y holds.
srcY(height, scrambleNum, i) ==
    LET remainder == height % scrambleNum
        segmentHeight == height \div scrambleNum
    IN  IF i = scrambleNum - 1 THEN 0
        ELSE IF i = 0 THEN height - segmentHeight - remainder
        ELSE height - (i + 1) * segmentHeight

dstY(height, scrambleNum, i) ==
    LET remainder == height % scrambleNum
        segmentHeight == height \div scrambleNum
    IN  IF i > 0 THEN i * segmentHeight + remainder ELSE i * segmentHeight

dstH(height, scrambleNum, i) ==
    LET remainder == height % scrambleNum
        segmentHeight == height \div scrambleNum
    IN  IF i = 0 THEN segmentHeight + remainder ELSE segmentHeight

\* draw.Draw(result, dstRect, img, srcRect.Min, draw.Src): every row of
\* dstRect inside the result whose source row lies inside img is copied.
DrawStrip(rows, height, scrambleNum, i) ==
    LET dy == dstY(height, scrambleNum, i)
        dh == dstH(height, scrambleNum, i)
        sy == srcY(height, scrambleNum, i)
    IN  [y1 \in 1..height |->
            LET y == y1 - 1
                from == sy + (y - dy)
            IN  IF y >= dy /\ y < dy + dh /\ from >= 0 /\ from < height
                THEN from
                ELSE rows[y1]]

\* The bytes handed to DecodeScrambledImage, as the caller sees them.
InputData == [kind |-> "input"]

\* return data, nil
ReturnInput == [bytes |-> InputData, err |-> "nil"]

EncodeFailureIsError(rows, encodeOK) ==
    IF encodeOK THEN [bytes |-> [kind |-> "encoded", rows |-> rows], err |-> "nil"]
    ELSE [bytes |-> <<>>, err |-> "encode"]

\* jpeg.Encode(&buf, result, ...); if err != nil { return data, nil };
\* return buf.Bytes(), nil
EncodeResult(rows, encodeOK) ==
    IF encodeOK THEN [bytes |-> [kind |-> "encoded", rows |-> rows], err |-> "nil"]
    ELSE ReturnInput

DecInit ==
    \E h \in 1..MaxHeight, n \in SegmentCounts \cup {0}, decodable \in BOOLEAN :
        dec = [pc |-> "call", decodable |-> decodable, height |-> h,
               scrambleNum |-> n, i |-> 0,
               rows |-> [y \in 1..h |-> Blank], ret |-> [err |-> "pending"]]

DecIdle == dec = [pc |-> "off"]

DecOnly ==
    UNCHANGED <<scr, cli, get, cfg, fs, pdf, comic, dir, dl, chp, jobs, page, mpc, dom,
                chk,
                tag,
                srch,
                bs,
                cht,
                gci,
                doc,
                wl>>

\* image.Decode, then GetScrambleNum: the two early returns, or the loop.
DecodeCall ==
    /\ dec.pc = "call"
    /\ IF ~dec.decodable \/ dec.scrambleNum = 0
       THEN dec' = [dec EXCEPT !.pc = "done", !.ret = ReturnInput]
       ELSE dec' = [dec EXCEPT !.pc = "loop"]
    /\ DecOnly

\* One iteration of the loop over the segments.
DecodeStrip ==
    /\ dec.pc = "loop"
    /\ dec.i < dec.scrambleNum
    /\ dec' = [dec EXCEPT
                 !.rows = DrawStrip(dec.rows, dec.height, dec.scrambleNum, dec.i),
                 !.i = dec.i + 1]
    /\ DecOnly

\* The loop has ended; the result is encoded and returned.
DecodeReturn ==
    /\ dec.pc = "loop"
    /\ dec.i = dec.scrambleNum
    /\ \E encodeOK \in BOOLEAN :
         dec' = [dec EXCEPT !.pc = "done", !.ret = EncodeResult(dec.rows, encodeOK)]
    /\ DecOnly

DecNext == DecodeCall \/ DecodeStrip \/ DecodeReturn

(***************************************************************************)
(* JMClient: the mirror list, GetComicDetail and fetchComicDetail          *)
(***************************************************************************)
MaxMirrors == 2
MaxChapters == 2

defaultDomains == <<"18comic.vip", "18comic.org", "jmcomic.me",
                    "jmcomic1.me", "jmcomic2.me">>

\* Hosts a configuration may name.
Mirrors == {"mirror.a", "mirror.b"}

\* config.JMDomains: an ordered list, possibly empty, possibly repeating.
ConfiguredDomains ==
    UNION {[1..n -> Mirrors] : n \in 0..MaxMirrors}

\* "https://" + domain
URL(domain) == <<"https://", domain>>

NewJMClient(jmDomains) ==
    LET domains == IF Len(jmDomains) = 0 THEN defaultDomains ELSE jmDomains
    IN  [domains |-> domains, baseURL |-> URL(domains[1])]

NoError == [kind |-> "nil"]

\* What a mirror may answer to the album page and to the chapter pages.
\*   net = FALSE          : httpClient.Do fails
\*   status # 200         : any other status
\*   read = FALSE         : io.ReadAll fails
\*   chapterOK[k]         : getChapterImages of the k-th photo id succeeds
DetailResponses ==
    {[net |-> FALSE, status |-> 0, read |-> FALSE, chapterOK |-> <<>>]}
    \cup {[net |-> TRUE, status |-> st, read |-> FALSE, chapterOK |-> <<>>] :
            st \in {302, 404, 200}}
    \cup {[net |-> TRUE, status |-> 200, read |-> TRUE, chapterOK |-> c] :
            c \in UNION {[1..n -> BOOLEAN] : n \in 1..MaxChapters}}

\* The chapters kept by the loop over photoIDs: failed ones are skipped.
KeptChapters(chapterOK) ==
    LET RECURSIVE keep(_)
        keep(k) == IF k = 0 THEN <<>>
                   ELSE IF chapterOK[k] THEN Append(keep(k - 1), k)
                   ELSE keep(k - 1)
    IN  keep(Len(chapterOK))

\* fetchComicDetail(baseURL, comicID) against a mirror answering resp.
fetchComicDetail(baseURL, resp) ==
    IF ~resp.net
    THEN [ok |-> FALSE, err |-> [kind |-> "fetch", url |-> baseURL, status |-> 0]]
    ELSE IF resp.status # 200
    THEN [ok |-> FALSE,
          err |-> [kind |-> "status", url |-> baseURL, status |-> resp.status]]
    ELSE IF ~resp.read
    THEN [ok |-> FALSE, err |-> [kind |-> "read", url |-> baseURL, status |-> 200]]
    ELSE IF Len(KeptChapters(resp.chapterOK)) = 0
    THEN [ok |-> FALSE,
          err |-> [kind |-> "nochapters", url |-> baseURL, status |-> 200]]
    ELSE [ok |-> TRUE,
          comic |-> [from |-> baseURL, chapters |-> KeptChapters(resp.chapterOK)]]

StopsOnNoChapters(res) == res.ok \/ res.err.kind = "nochapters"

\* if err == nil { return comic, nil }
StopsLoop(res) == res.ok

KeepsFirstErr(lastErr, err) == IF lastErr = NoError THEN err ELSE lastErr

\* lastErr = err
NextLastErr(lastErr, err) == err

\* fmt.Errorf("failed to get comic detail from all domains: %v", lastErr)
AllDomainsError(lastErr) == [kind |-> "alldomains", cause |-> lastErr]

CliInit ==
    \E jmDomains \in ConfiguredDomains :
        /\ cli = NewJMClient(jmDomains)
        /\ get = [pc |-> "idle", rng |-> <<>>, i |-> 0, lastErr |-> NoError,
                  attempts |-> <<>>, ret |-> [ok |-> FALSE, err |-> NoError]]

CliIdle == cli = [pc |-> "off"] /\ get = [pc |-> "off"]

CliOnly ==
    UNCHANGED <<scr, dec, cfg, fs, pdf, comic, dir, dl, chp, jobs, page, mpc, dom,
                chk,
                tag,
                srch,
                bs,
                cht,
                gci,
                doc,
                wl>>

\* for _, domain := range c.domains: the slice is read once.
GetComicDetailCall ==
    /\ get.pc = "idle"
    /\ get' = [get EXCEPT !.pc = "loop", !.rng = cli.domains, !.i = 1]
    /\ UNCHANGED cli
    /\ CliOnly

\* One iteration: fetchComicDetail on the next domain of the list.
GetComicDetailTry ==
    /\ get.pc = "loop"
    /\ get.i <= Len(get.rng)
    /\ \E resp \in DetailResponses :
        LET baseURL == URL(get.rng[get.i])
            res == fetchComicDetail(baseURL, resp)
            tried == Append(get.attempts,
                            [url |-> baseURL,
                             kind |-> IF res.ok THEN "ok" ELSE res.err.kind,
                             status |-> resp.status])
        IN  IF StopsLoop(res)
            THEN get' = [get EXCEPT !.pc = "done", !.attempts = tried,
                                    !.ret = res]
            ELSE get' = [get EXCEPT !.attempts = tried, !.i = get.i + 1,
                                    !.lastErr = NextLastErr(get.lastErr, res.err)]
    /\ UNCHANGED cli
    /\ CliOnly

\* The list is exhausted.
GetComicDetailFail ==
    /\ get.pc = "loop"
    /\ get.i > Len(get.rng)
    /\ get' = [get EXCEPT !.pc = "done",
                          !.ret = [ok |-> FALSE,
                                   err |-> AllDomainsError(get.lastErr)]]
    /\ UNCHANGED cli
    /\ CliOnly

CliNext == GetComicDetailCall \/ GetComicDetailTry \/ GetComicDetailFail

(***************************************************************************)
(* PDFGenerator: CreatePDF and encryptPDF                                  *)
(***************************************************************************)
MaxImages == 3
MaxPagesPerFile == 2
MaxCalls == 2

\* comic.ID
ComicID == "350234"

Passwords == {"", "secret"}

\* The configurations a start of the plugin may load.
Configs ==
    [PDFMaxPages : 0..MaxPagesPerFile, PDFPassword : Passwords]

\* fmt.Sprintf("%s.pdf", comic.ID) and fmt.Sprintf("%s-part%d.pdf", ...)
PdfPath(totalChunks, chunkIdx) ==
    IF totalChunks = 1 THEN <<ComicID, ".pdf">>
    ELSE <<ComicID, "-part">> \o Itoa(chunkIdx + 1) \o <<".pdf">>

\* pdfPath + ".encrypted"
EncryptedPath(pdfPath) == pdfPath \o <<".encrypted">>

\* maxPages := p.config.PDFMaxPages; if maxPages <= 0 { maxPages = len(images) }
EffectiveMaxPages(pdfMaxPages, n) == IF pdfMaxPages <= 0 THEN n ELSE pdfMaxPages

TotalChunksFloor(n, maxPages) == n \div maxPages

AlreadyBuiltAnySize(files, path) == path \in DOMAIN files

\* totalChunks := (len(images) + maxPages - 1) / maxPages
TotalChunks(n, maxPages) == (n + maxPages - 1) \div maxPages

\* images[start:end] of chunk chunkIdx, as the half-open range <<start, end>>
ChunkRange(n, maxPages, chunkIdx) ==
    LET start == chunkIdx * maxPages
        end == start + maxPages
    IN  <<start, IF end > n THEN n ELSE end>>

Exists(files, path) == path \in DOMAIN files

\* os.Stat(pdfPath) succeeds and info.Size() > 1024
AlreadyBuilt(files, path) == Exists(files, path) /\ files[path].big

WriteFile(files, path, file) ==
    [q \in DOMAIN files \cup {path} |-> IF q = path THEN file ELSE files[q]]

RemoveFile(files, path) == [q \in DOMAIN files \ {path} |-> files[q]]

NoFiles == [q \in {} |-> 0]

\* No call came before, or it failed, or the configuration changed since.
NoPrev == [ok |-> FALSE]

\* built counts the createSinglePDF calls of the current CreatePDF call;
\* prev is the successful call made just before with the same
\* configuration, and kept says that every path it returned held a file of
\* more than 1024 bytes when the current call started.
PdfStart == [pc |-> "idle", calls |-> 0, n |-> 0, maxPages |-> 0, totalChunks |-> 0,
             chunkIdx |-> 0, pdfFiles |-> <<>>, chunks |-> <<>>,
             built |-> 0, prev |-> NoPrev, kept |-> FALSE,
             ret |-> [ok |-> FALSE, err |-> "none"]]

\* Every path holds a file of more than 1024 bytes.
HoldsEveryFile(files, paths) ==
    \A i \in 1..Len(paths) : paths[i] \in DOMAIN files /\ files[paths[i]].big

PdfFail(err) == [pdf EXCEPT !.pc = "done", !.ret = [ok |-> FALSE, err |-> err]]

\* pdfFiles = append(pdfFiles, pdfPath), and the loop's chunkIdx++
PdfAppend(path) ==
    [pdf EXCEPT !.pc = "chunk", !.pdfFiles = Append(pdf.pdfFiles, path),
                !.chunkIdx = pdf.chunkIdx + 1]

PdfInit ==
    /\ cfg \in Configs
    /\ fs = NoFiles
    /\ pdf = PdfStart

PdfIdle == cfg = [pc |-> "off"] /\ fs = NoFiles /\ pdf = [pc |-> "off"]

PdfOnly ==
    UNCHANGED <<scr, dec, cli, get, comic, dir, dl, chp, jobs, page, mpc, dom,
                chk,
                tag,
                srch,
                bs,
                cht,
                gci,
                doc,
                wl>>

\* The plugin is started again with an edited configuration; the files of
\* the work directory stay.
LoadConfig ==
    /\ pdf.pc = "done"
    /\ pdf.calls < MaxCalls
    /\ cfg' \in Configs
    /\ cfg' # cfg
    /\ pdf' = [PdfStart EXCEPT !.calls = pdf.calls]
    /\ UNCHANGED fs
    /\ PdfOnly

\* CreatePDF up to the chunk loop, for a list of n images.  os.MkdirAll can
\* fail only while the directory holds no file.
CreatePDFCall ==
    /\ pdf.pc \in {"idle", "done"}
    /\ pdf.calls < MaxCalls
    /\ \E n \in 0..MaxImages, mkdirOK \in (IF fs = NoFiles THEN BOOLEAN ELSE {TRUE}) :
        LET prev == IF pdf.ret.ok
                    THEN [ok |-> TRUE, n |-> pdf.n, paths |-> pdf.ret.paths]
                    ELSE NoPrev
            start == [PdfStart EXCEPT !.calls = pdf.calls + 1, !.n = n,
                         !.prev = prev,
                         !.kept = prev.ok /\ HoldsEveryFile(fs, prev.paths)]
        IN  IF n = 0
            THEN pdf' = [start EXCEPT !.pc = "done",
                                      !.ret = [ok |-> FALSE, err |-> "no images"]]
            ELSE IF ~mkdirOK
            THEN pdf' = [start EXCEPT !.pc = "done",
                                      !.ret = [ok |-> FALSE, err |-> "mkdir"]]
            ELSE LET maxPages == EffectiveMaxPages(cfg.PDFMaxPages, n)
                 IN  pdf' = [start EXCEPT !.pc = "chunk",
                                !.maxPages = maxPages,
                                !.totalChunks = TotalChunks(n, maxPages)]
    /\ UNCHANGED <<cfg, fs>>
    /\ PdfOnly

\* One iteration of the chunk loop up to the encryption step: the file is
\* kept when it exists with more than 1024 bytes, else createSinglePDF
\* writes it (of either size), or fails.
CreatePDFChunk ==
    /\ pdf.pc = "chunk"
    /\ pdf.chunkIdx < pdf.totalChunks
    /\ LET path == PdfPath(pdf.totalChunks, pdf.chunkIdx)
           range == ChunkRange(pdf.n, pdf.maxPages, pdf.chunkIdx)
           seen == [pdf EXCEPT !.chunks = Append(pdf.chunks, range)]
       IN  IF AlreadyBuilt(fs, path)
           THEN /\ pdf' = [seen EXCEPT !.pdfFiles = Append(pdf.pdfFiles, path),
                                       !.chunkIdx = pdf.chunkIdx + 1]
                /\ UNCHANGED fs
           ELSE \E writeOK \in BOOLEAN, big \in BOOLEAN :
                IF ~writeOK
                THEN /\ pdf' = [seen EXCEPT !.pc = "done", !.built = pdf.built + 1,
                                    !.ret = [ok |-> FALSE, err |-> "create"]]
                     /\ UNCHANGED fs
                ELSE /\ fs' = WriteFile(fs, path,
                                 [kind |-> "plain", password |-> "",
                                  big |-> big, range |-> range])
                     /\ IF cfg.PDFPassword # ""
                        THEN pdf' = [seen EXCEPT !.pc = "encrypt",
                                                 !.built = pdf.built + 1]
                        ELSE pdf' = [seen EXCEPT
                                        !.pdfFiles = Append(pdf.pdfFiles, path),
                                        !.chunkIdx = pdf.chunkIdx + 1,
                                        !.built = pdf.built + 1]
    /\ UNCHANGED cfg
    /\ PdfOnly

\* encryptPDF: api.EncryptFile(pdfPath, encryptedPath, conf)
EncryptFile ==
    /\ pdf.pc = "encrypt"
    /\ LET path == PdfPath(pdf.totalChunks, pdf.chunkIdx)
       IN  \E ok \in BOOLEAN :
            IF ok
            THEN /\ fs' = WriteFile(fs, EncryptedPath(path),
                             [kind |-> "encrypted",
                              password |-> cfg.PDFPassword,
                              big |-> fs[path].big,
                              range |-> fs[path].range])
                 /\ pdf' = [pdf EXCEPT !.pc = "remove"]
            ELSE /\ pdf' = PdfFail("encrypt")
                 /\ UNCHANGED fs
    /\ UNCHANGED cfg
    /\ PdfOnly

\* encryptPDF: os.Remove(pdfPath); on failure the encrypted copy is removed
EncryptRemove ==
    /\ pdf.pc = "remove"
    /\ LET path == PdfPath(pdf.totalChunks, pdf.chunkIdx)
       IN  \E ok \in BOOLEAN :
            IF ok
            THEN /\ fs' = RemoveFile(fs, path)
                 /\ pdf' = [pdf EXCEPT !.pc = "rename"]
            ELSE /\ fs' = RemoveFile(fs, EncryptedPath(path))
                 /\ pdf' = PdfFail("remove")
    /\ UNCHANGED cfg
    /\ PdfOnly

\* encryptPDF: os.Rename(encryptedPath, pdfPath), then the loop goes on
EncryptRename ==
    /\ pdf.pc = "rename"
    /\ LET path == PdfPath(pdf.totalChunks, pdf.chunkIdx)
       IN  \E ok \in BOOLEAN :
            IF ok
            THEN /\ fs' = RemoveFile(WriteFile(fs, path, fs[EncryptedPath(path)]),
                                     EncryptedPath(path))
                 /\ pdf' = PdfAppend(path)
            ELSE /\ pdf' = PdfFail("rename")
                 /\ UNCHANGED fs
    /\ UNCHANGED cfg
    /\ PdfOnly

\* return pdfFiles, nil
CreatePDFReturn ==
    /\ pdf.pc = "chunk"
    /\ pdf.chunkIdx = pdf.totalChunks
    /\ pdf' = [pdf EXCEPT !.pc = "done",
                          !.ret = [ok |-> TRUE, paths |-> pdf.pdfFiles]]
    /\ UNCHANGED <<cfg, fs>>
    /\ PdfOnly

PdfNext ==
    \/ LoadConfig
    \/ CreatePDFCall
    \/ CreatePDFChunk
    \/ EncryptFile
    \/ EncryptRemove
    \/ EncryptRename
    \/ CreatePDFReturn

(***************************************************************************)
(* Downloader: DownloadComic, downloadChapter, checkExistingImages         *)
(***************************************************************************)
MaxComicChapters == 2
MaxComicPages == 3

\* semaphore := make(chan struct{}, 10)
SemaphoreSize == 10

\* filepath.Ext of the chapter's image names; "" is a name with no
\* extension, ".bmp" one that checkExistingImages does not list.
Exts == {".JPG", "", ".bmp"}

RECURSIVE SumTo(_, _)
SumTo(sizes, k) == IF k = 0 THEN 0 ELSE SumTo(sizes, k - 1) + sizes[k]

\* comic.Pages: the sum of len(ch.ImageURLs)
Pages(c) == SumTo(c.sizes, Len(c.sizes))

\* A comic: the number of images of each chapter, and their extension.
Comics ==
    {c \in [sizes : UNION {[1..k -> 0..MaxComicPages] : k \in 1..MaxComicChapters},
            ext : Exts] : Pages(c) <= MaxComicPages}

\* DownloadComic is called once, and then once more on the same directory.
CallNames == <<"first", "second">>

\* fmt.Sprintf("%04d", n): at least four digits, zero padded
Format04(n) ==
    LET digits == Itoa(n)
    IN  [k \in 1..(4 - Len(digits)) |-> "0"] \o digits

\* ext := filepath.Ext(filename); if ext == "" { ext = ".jpg" }
SavedExt(ext) == IF ext = "" THEN ".jpg" ELSE ext

\* fmt.Sprintf("%04d%s", globalIndex, ext): the file's name, the digits
\* one by one and the extension as one token
ImageName(globalIndex, ext) == Format04(globalIndex) \o <<SavedExt(ext)>>

GlobalIndexInChapter(startIndex, index) == index

\* globalIndex := startIndex + index
GlobalIndex(startIndex, index) == startIndex + index

\* strings.ToLower(filepath.Ext(name))
LowerExt(name) ==
    LET last == name[Len(name)]
    IN  IF last = ".JPG" THEN ".jpg" ELSE last

ImageExts == {".jpg", ".jpeg", ".png", ".webp", ".gif"}

\* strings.TrimSuffix(name, ext)
TrimSuffix(name, ext) ==
    IF name[Len(name)] = ext THEN SubSeq(name, 1, Len(name) - 1) ELSE name

RECURSIVE DigitPrefix(_)
DigitPrefix(s) ==
    IF s = <<>> \/ ~IsDigit(s[1]) THEN <<>>
    ELSE <<s[1]>> \o DigitPrefix(Tail(s))

\* index := 0; fmt.Sscanf(indexStr, "%d", &index)
ScanIndex(indexStr) == DigitsValue(DigitPrefix(indexStr))

RECURSIVE SortByIndex(_)
\* sort.Slice(images, Index ascending)
SortByIndex(images) ==
    IF images = <<>> THEN <<>>
    ELSE LET least == CHOOSE k \in 1..Len(images) :
                          \A j \in 1..Len(images) :
                              \/ images[k].Index < images[j].Index
                              \/ (images[k].Index = images[j].Index /\ k <= j)
             rest == [j \in 1..(Len(images) - 1) |->
                          IF j < least THEN images[j] ELSE images[j + 1]]
         IN  <<images[least]>> \o SortByIndex(rest)

RECURSIVE ListDir(_, _)
\* The DownloadedImage of every listed file, for the names in names.
ListDir(files, names) ==
    IF names = {} THEN <<>>
    ELSE LET name == CHOOSE x \in names : TRUE
             ext == LowerExt(name)
             rest == ListDir(files, names \ {name})
         IN  IF ext \notin ImageExts THEN rest
             ELSE <<[Index |-> ScanIndex(TrimSuffix(name, ext)),
                     Path |-> name, Data |-> files[name]]>> \o rest

\* checkExistingImages(dir, comic)
checkExistingImages(files) == SortByIndex(ListDir(files, DOMAIN files))

ReusesOnlyWhenMore(existing, pages) == Len(existing) > pages

\* err == nil && len(existingImages) > 0 && len(existingImages) >= comic.Pages
ReusesExisting(existing, pages) ==
    Len(existing) > 0 /\ Len(existing) >= pages

\* The zero DownloadedImage of make([]DownloadedImage, n): its Path is "".
EmptyImage == [Index |-> 0, Path |-> <<>>, Data |-> <<>>]

\* Filter out empty entries
RECURSIVE FilterEmpty(_)
FilterEmpty(images) ==
    IF images = <<>> THEN <<>>
    ELSE IF images[1].Path # <<>>
    THEN <<images[1]>> \o FilterEmpty(Tail(images))
    ELSE FilterEmpty(Tail(images))

AcceptsPartialChapter(errors, images) == [ok |-> TRUE, images |-> FilterEmpty(images)]

\* downloadChapter after wg.Wait()
ChapterResult(errors, images) ==
    IF Len(errors) > 0
    THEN [ok |-> FALSE, err |-> errors[1], images |-> <<>>]
    ELSE [ok |-> TRUE, images |-> FilterEmpty(images)]

\* The goroutines holding a slot of the semaphore.
SlotsInUse(tasks) == Cardinality({i \in DOMAIN tasks : tasks[i] \in {"fetch", "write"}})

JoinsEarly(tasks) == \E i \in DOMAIN tasks : tasks[i] = "done"

\* wg.Wait() returns
AllDone(tasks) == \A i \in DOMAIN tasks : tasks[i] = "done"

NoChapter == [tasks |-> <<>>, images |-> <<>>, errors |-> <<>>]

DlStart == [pc |-> "idle", calls |-> 0, ch |-> 0, imageIndex |-> 0,
            allImages |-> <<>>, fetches |-> 0, reused |-> FALSE,
            heldAll |-> FALSE,
            ret |-> [ok |-> FALSE, err |-> "none", images |-> <<>>],
            prev |-> [ok |-> FALSE, images |-> <<>>]]

\* The directory holds at least comic.Pages files that checkExistingImages
\* takes for image files.
HoldsAllPages(files, c) ==
    Cardinality({name \in DOMAIN files : LowerExt(name) \in ImageExts}) >= Pages(c)

DlInit ==
    /\ comic \in Comics
    /\ dir = NoFiles
    /\ dl = DlStart
    /\ chp = NoChapter

DlIdle ==
    /\ comic = [pc |-> "off"]
    /\ dir = NoFiles
    /\ dl = [pc |-> "off"]
    /\ chp = [pc |-> "off"]

DlOnly ==
    UNCHANGED <<scr, dec, cli, get, cfg, fs, pdf, jobs, page, mpc, dom,
                chk,
                tag,
                srch,
                bs,
                cht,
                gci,
                doc,
                wl>>

\* DownloadComic up to the chapter loop.  os.MkdirAll can fail only while
\* the directory holds no file: on an existing directory it returns nil.
DownloadComicCall ==
    /\ dl.pc \in {"idle", "done"}
    /\ dl.calls < Len(CallNames)
    /\ \E mkdirOK \in (IF dir = NoFiles THEN BOOLEAN ELSE {TRUE}) :
        LET start == [DlStart EXCEPT !.calls = dl.calls + 1, !.prev = [ok |-> dl.ret.ok, images |-> dl.ret.images],
                                     !.heldAll = HoldsAllPages(dir, comic)]
            existing == checkExistingImages(dir)
        IN  IF ~mkdirOK
            THEN dl' = [start EXCEPT !.pc = "done",
                           !.ret = [ok |-> FALSE, err |-> "mkdir", images |-> <<>>]]
            ELSE IF ReusesExisting(existing, Pages(comic))
            THEN dl' = [start EXCEPT !.pc = "done", !.reused = TRUE,
                           !.ret = [ok |-> TRUE, images |-> existing]]
            ELSE dl' = [start EXCEPT !.pc = "next", !.ch = 1]
    /\ chp' = NoChapter
    /\ UNCHANGED <<comic, dir>>
    /\ DlOnly

\* The chapter loop enters downloadChapter: one goroutine per image URL.
StartChapter ==
    /\ dl.pc = "next"
    /\ dl.ch <= Len(comic.sizes)
    /\ dl' = [dl EXCEPT !.pc = "chapter"]
    /\ chp' = [tasks |-> [i \in 1..comic.sizes[dl.ch] |-> "start"],
               images |-> [i \in 1..comic.sizes[dl.ch] |-> EmptyImage],
               errors |-> <<>>]
    /\ UNCHANGED <<comic, dir>>
    /\ DlOnly

\* semaphore <- struct{}{}
TaskAcquire ==
    \E i \in DOMAIN chp.tasks :
        /\ dl.pc = "chapter"
        /\ chp.tasks[i] = "start"
        /\ SlotsInUse(chp.tasks) < SemaphoreSize
        /\ chp' = [chp EXCEPT !.tasks[i] = "fetch"]
        /\ UNCHANGED <<comic, dir, dl>>
        /\ DlOnly

\* d.client.DownloadImage(url), then DecodeScrambledImage; on an error the
\* error is appended under the mutex and the goroutine returns.
TaskDownload ==
    \E i \in DOMAIN chp.tasks :
        /\ dl.pc = "chapter"
        /\ chp.tasks[i] = "fetch"
        /\ dl' = [dl EXCEPT !.fetches = dl.fetches + 1]
        /\ \E ok \in BOOLEAN :
            IF ok
            THEN chp' = [chp EXCEPT !.tasks[i] = "write"]
            ELSE chp' = [chp EXCEPT !.tasks[i] = "done",
                            !.errors = Append(chp.errors,
                                              [kind |-> "download", index |-> i - 1])]
        /\ UNCHANGED <<comic, dir>>
        /\ DlOnly

\* os.WriteFile(imagePath, decodedData, 0644), then images[index] is set
\* under the mutex; a failed write appends its error and leaves no file.
TaskWrite ==
    \E i \in DOMAIN chp.tasks :
        /\ dl.pc = "chapter"
        /\ chp.tasks[i] = "write"
        /\ LET globalIndex == GlobalIndex(dl.imageIndex, i - 1)
               imagePath == ImageName(globalIndex, comic.ext)
               data == <<dl.ch, i - 1>>
           IN  \E ok \in BOOLEAN :
                IF ok
                THEN /\ dir' = WriteFile(dir, imagePath, data)
                     /\ chp' = [chp EXCEPT !.tasks[i] = "done",
                                   !.images[i] = [Index |-> globalIndex,
                                                  Path |-> imagePath,
                                                  Data |-> data]]
                ELSE /\ dir' = dir
                     /\ chp' = [chp EXCEPT !.tasks[i] = "done",
                                   !.errors = Append(chp.errors,
                                                     [kind |-> "save", index |-> i - 1])]
        /\ UNCHANGED <<comic, dl>>
        /\ DlOnly

\* wg.Wait() returns; downloadChapter returns to the chapter loop.
ChapterJoin ==
    /\ dl.pc = "chapter"
    /\ AllDone(chp.tasks)
    /\ LET res == ChapterResult(chp.errors, chp.images)
       IN  IF ~res.ok
           THEN dl' = [dl EXCEPT !.pc = "done",
                          !.ret = [ok |-> FALSE,
                                   err |-> <<"chapter", dl.ch, res.err>>,
                                   images |-> <<>>]]
           ELSE dl' = [dl EXCEPT !.pc = "next", !.ch = dl.ch + 1,
                          !.allImages = dl.allImages \o res.images,
                          !.imageIndex = dl.imageIndex + Len(res.images)]
    /\ UNCHANGED <<comic, dir, chp>>
    /\ DlOnly

\* The chapter loop has ended: sort by index and return.
DownloadComicReturn ==
    /\ dl.pc = "next"
    /\ dl.ch > Len(comic.sizes)
    /\ dl' = [dl EXCEPT !.pc = "done",
                        !.ret = [ok |-> TRUE, images |-> SortByIndex(dl.allImages)]]
    /\ UNCHANGED <<comic, dir, chp>>
    /\ DlOnly

DlNext ==
    \/ DownloadComicCall
    \/ StartChapter
    \/ TaskAcquire
    \/ TaskDownload
    \/ TaskWrite
    \/ ChapterJoin
    \/ DownloadComicReturn

(***************************************************************************)
(* Command layer: every "jm <id>" command runs downloadComic in its own    *)
(* goroutine; each downloadChapter call makes its own semaphore.           *)
(***************************************************************************)
MaxConcurrentCalls == 2
MaxChapterTasks == 11

Callers == 1..MaxConcurrentCalls

NoJob == [pc |-> "idle", waiting |-> 0, fetching |-> 0]

\* The slots taken of the semaphore made by caller c's downloadChapter.
SemaphoreLen(c) == jobs.call[c].fetching

\* The DownloadImage calls in flight in the whole process.
FetchesInFlight(k) ==
    LET RECURSIVE Sum(_)
        Sum(c) == IF c = 0 THEN 0 ELSE Sum(c - 1) + jobs.call[c].fetching
    IN  Sum(k)

JobInit ==
    \E n \in 0..MaxChapterTasks :
        jobs = [n |-> n, call |-> [c \in Callers |-> NoJob]]

JobIdle == jobs = [pc |-> "off"]

JobOnly ==
    UNCHANGED <<scr, dec, cli, get, cfg, fs, pdf, comic, dir, dl, chp, page, mpc, dom,
                chk,
                tag,
                srch,
                bs,
                cht,
                gci,
                doc,
                wl>>

\* go p.downloadComic(...) reaches downloadChapter: a new semaphore, and
\* one goroutine per image URL.
JobStartChapter ==
    \E c \in Callers :
        /\ jobs.call[c].pc = "idle"
        /\ jobs' = [jobs EXCEPT !.call[c] =
                        [pc |-> "chapter", waiting |-> jobs.n, fetching |-> 0]]
        /\ JobOnly

\* semaphore <- struct{}{}, then d.client.DownloadImage(url) is in flight
JobAcquire ==
    \E c \in Callers :
        /\ jobs.call[c].pc = "chapter"
        /\ jobs.call[c].waiting > 0
        /\ SemaphoreLen(c) < SemaphoreSize
        /\ jobs' = [jobs EXCEPT !.call[c].waiting = @ - 1,
                                !.call[c].fetching = @ + 1]
        /\ JobOnly

\* DownloadImage returns; the goroutine decodes, writes, releases its slot.
JobRelease ==
    \E c \in Callers :
        /\ jobs.call[c].pc = "chapter"
        /\ jobs.call[c].fetching > 0
        /\ jobs' = [jobs EXCEPT !.call[c].fetching = @ - 1]
        /\ JobOnly

\* wg.Wait() returns and downloadChapter returns.
JobJoin ==
    \E c \in Callers :
        /\ jobs.call[c].pc = "chapter"
        /\ jobs.call[c].waiting = 0
        /\ jobs.call[c].fetching = 0
        /\ jobs' = [jobs EXCEPT !.call[c] = NoJob]
        /\ JobOnly

JobNext == JobStartChapter \/ JobAcquire \/ JobRelease \/ JobJoin

(***************************************************************************)
(* createSinglePDF: the page size of one image.  The code computes in      *)
(* float64; here the scale is the exact fraction num/den, and a page       *)
(* dimension is a numerator over the scale's denominator.                  *)
(***************************************************************************)
\* maxWidth := 1240.0, maxHeight := 1754.0
maxWidth == 1240
maxHeight == 1754

\* if pageWidth < 100 { pageWidth = 100 }
minPageSize == 100

\* imgConfig.Width and imgConfig.Height of the images tried.
ImageDims == {1, 50, 99, 100, 101, 620, 1239, 1240, 1241, 1753, 1754, 1755,
              2480, 3508, 12400, 17540, 21750, 40000}

\* scale := 1.0
NoScale == [num |-> 1, den |-> 1]

\* if pageWidth > maxWidth { scale = maxWidth / pageWidth }
ScaleForWidth(w) ==
    IF w > maxWidth THEN [num |-> maxWidth, den |-> w] ELSE NoScale

\* if pageHeight*scale > maxHeight { scale = maxHeight / pageHeight }
ScaleForHeight(h, scale) ==
    IF h * scale.num > maxHeight * scale.den
    THEN [num |-> maxHeight, den |-> h]
    ELSE scale

ClampNever(dim, den) == dim

\* if pageWidth < 100 { pageWidth = 100 }, the same for pageHeight; dim is
\* the numerator of the dimension over den
ClampMin(dim, den) == IF dim < minPageSize * den THEN minPageSize * den ELSE dim

\* pageWidth *= scale; pageHeight *= scale; Ensure minimum size
PageRect(w, h, scale) ==
    [W |-> ClampMin(w * scale.num, scale.den),
     H |-> ClampMin(h * scale.num, scale.den),
     den |-> scale.den]

PageInit ==
    \E w \in ImageDims, h \in ImageDims :
        page = [pc |-> "width", Width |-> w, Height |-> h, scale |-> NoScale,
                rect |-> [W |-> 0, H |-> 0, den |-> 1]]

PageIdle == page = [pc |-> "off"]

PageOnly ==
    UNCHANGED <<scr, dec, cli, get, cfg, fs, pdf, comic, dir, dl, chp, jobs, mpc, dom,
                chk,
                tag,
                srch,
                bs,
                cht,
                gci,
                doc,
                wl>>

PageScaleWidth ==
    /\ page.pc = "width"
    /\ page' = [page EXCEPT !.pc = "height", !.scale = ScaleForWidth(page.Width)]
    /\ PageOnly

PageScaleHeight ==
    /\ page.pc = "height"
    /\ page' = [page EXCEPT !.pc = "size",
                            !.scale = ScaleForHeight(page.Height, page.scale)]
    /\ PageOnly

\* pdf.AddPageWithOption(PageSize: &gopdf.Rect{W: pageWidth, H: pageHeight})
PageAdd ==
    /\ page.pc = "size"
    /\ page' = [page EXCEPT !.pc = "added",
                            !.rect = PageRect(page.Width, page.Height, page.scale)]
    /\ PageOnly

PageNext == PageScaleWidth \/ PageScaleHeight \/ PageAdd

(***************************************************************************)
(* GetMaxPage and its cache.  Time is counted in hours.                    *)
(***************************************************************************)
MaxClock == 26

\* time.Since(entry.Timestamp) < 24*time.Hour
CacheHours == 24

\* low, high := 1, 3000
MaxSearchPage == 3000

Queries == {"q1", "q2"}

\* The number of non-empty result pages the site has for a query at the
\* time of a call.
SitePages == {0, 7, 3000}

NoEntry == [MaxPage |-> 0, Timestamp |-> -1]

HasEntry(cache, query) == cache[query] # NoEntry

FreshUpTo24(entry, now) == now - entry.Timestamp <= CacheHours

\* time.Since(entry.Timestamp) < 24*time.Hour
Fresh(entry, now) == now - entry.Timestamp < CacheHours

\* mid := (low + high + 1) / 2
Mid(low, high) == (low + high + 1) \div 2

MpcIdleCall == [pc |-> "idle", query |-> "", site |-> 0, low |-> 0, high |-> 0,
                requests |-> 0, start |-> 0, age |-> -1, cached |-> 0,
                before |-> NoEntry, ret |-> [page |-> 0, err |-> "nil"]]

MpcInit ==
    mpc = [now |-> 0, cache |-> [q \in Queries |-> NoEntry], call |-> MpcIdleCall]

MpcIdle == mpc = [pc |-> "off"]

MpcOnly ==
    UNCHANGED <<scr, dec, cli, get, cfg, fs, pdf, comic, dir, dl, chp, jobs, page, dom,
                chk,
                tag,
                srch,
                bs,
                cht,
                gci,
                doc,
                wl>>

\* Time passes between two calls.
Tick ==
    /\ mpc.call.pc \in {"idle", "done"}
    /\ \E d \in {1, CacheHours - 1} :
        /\ mpc.now + d <= MaxClock
        /\ mpc' = [mpc EXCEPT !.now = mpc.now + d]
    /\ MpcOnly

\* GetMaxPage(query): the cache lookup under the read lock.  age, cached
\* and before record what the cache held at the call.
GetMaxPageCall ==
    /\ mpc.call.pc \in {"idle", "done"}
    /\ \E query \in Queries :
        LET entry == mpc.cache[query]
            call == [MpcIdleCall EXCEPT !.query = query, !.start = mpc.now,
                        !.age = IF HasEntry(mpc.cache, query)
                                THEN mpc.now - entry.Timestamp ELSE -1,
                        !.cached = entry.MaxPage, !.before = entry]
        IN  IF HasEntry(mpc.cache, query) /\ Fresh(entry, mpc.now)
            THEN mpc' = [mpc EXCEPT !.call =
                            [call EXCEPT !.pc = "done",
                                !.ret = [page |-> entry.MaxPage, err |-> "nil"]]]
            ELSE mpc' = [mpc EXCEPT !.call = [call EXCEPT !.pc = "first"]]
    /\ MpcOnly

\* results, err := c.SearchComics(query, 1)
GetMaxPageFirst ==
    /\ mpc.call.pc = "first"
    /\ \E ok \in BOOLEAN, site \in SitePages :
        LET call == [mpc.call EXCEPT !.requests = @ + 1, !.site = site]
        IN  IF ~ok
            THEN mpc' = [mpc EXCEPT !.call =
                            [call EXCEPT !.pc = "done",
                                !.ret = [page |-> 0, err |-> "search"]]]
            ELSE IF site = 0
            THEN mpc' = [mpc EXCEPT !.call =
                            [call EXCEPT !.pc = "done",
                                !.ret = [page |-> 0, err |-> "nil"]]]
            ELSE mpc' = [mpc EXCEPT !.call =
                            [call EXCEPT !.pc = "search", !.low = 1,
                                !.high = MaxSearchPage]]
    /\ MpcOnly

\* One iteration of the binary search: page mid has results exactly when
\* the site has at least mid pages.
GetMaxPageProbe ==
    /\ mpc.call.pc = "search"
    /\ mpc.call.low < mpc.call.high
    /\ LET mid == Mid(mpc.call.low, mpc.call.high)
       IN  IF mid > mpc.call.site
           THEN mpc' = [mpc EXCEPT !.call.high = mid - 1, !.call.requests = @ + 1]
           ELSE mpc' = [mpc EXCEPT !.call.low = mid, !.call.requests = @ + 1]
    /\ MpcOnly

\* maxPage := low; the entry is written under the write lock; return
GetMaxPageStore ==
    /\ mpc.call.pc = "search"
    /\ mpc.call.low >= mpc.call.high
    /\ mpc' = [mpc EXCEPT
                  !.cache[mpc.call.query] =
                      [MaxPage |-> mpc.call.low, Timestamp |-> mpc.now],
                  !.call.pc = "done",
                  !.call.ret = [page |-> mpc.call.low, err |-> "nil"]]
    /\ MpcOnly

MpcNext ==
    \/ Tick
    \/ GetMaxPageCall
    \/ GetMaxPageFirst
    \/ GetMaxPageProbe
    \/ GetMaxPageStore

(***************************************************************************)
(* The mirror list under concurrent commands: UpdateDomains and            *)
(* ClearDomains hold c.mu; GetComicDetail, SearchComics and setHeaders     *)
(* read c.domains and c.baseURL without it.                                *)
(***************************************************************************)
\* A read that overlapped the write of the same field: the slice header or
\* string header may be seen half written.
Torn == [torn |-> TRUE, value |-> <<>>]

\* A read that saw the whole value v.
Whole(v) == [torn |-> FALSE, value |-> v]

IdleWriter == [pc |-> "idle", op |-> "none", arg |-> <<>>]

IdleReader == [pc |-> "idle", op |-> "none", saw |-> Whole(<<>>), locked |-> FALSE]

\* c.baseURL after UpdateDomains(domains): if len(domains) > 0 { ... }
UpdatedBaseURL(baseURL, domains) ==
    IF Len(domains) > 0 THEN URL(domains[1]) ELSE baseURL

DomInit ==
    \E jmDomains \in ConfiguredDomains :
        LET client == NewJMClient(jmDomains)
        IN  dom = [domains |-> client.domains, baseURL |-> client.baseURL,
                   mu |-> "free", last |-> [op |-> "new", arg |-> jmDomains],
                   writer |-> IdleWriter, reader |-> IdleReader]

DomIdle == dom = [pc |-> "off"]

DomOnly ==
    UNCHANGED <<scr, dec, cli, get, cfg, fs, pdf, comic, dir, dl, chp, jobs, page, mpc,
                chk,
                tag,
                srch,
                bs,
                cht,
                gci,
                doc,
                wl>>

\* UpdateDomains(domains): c.mu.Lock()
UpdateDomainsLock ==
    /\ dom.writer.pc = "idle"
    /\ dom.mu = "free"
    /\ \E domains \in ConfiguredDomains :
        dom' = [dom EXCEPT !.mu = "writer",
                   !.writer = [pc |-> "domains", op |-> "update", arg |-> domains]]
    /\ DomOnly

\* ClearDomains(): c.mu.Lock()
ClearDomainsLock ==
    /\ dom.writer.pc = "idle"
    /\ dom.mu = "free"
    /\ dom' = [dom EXCEPT !.mu = "writer",
                  !.writer = [pc |-> "domains", op |-> "clear", arg |-> defaultDomains]]
    /\ DomOnly

\* c.domains = domains, or c.domains = defaultDomains
WriteDomains ==
    /\ dom.writer.pc = "domains"
    /\ dom' = [dom EXCEPT !.domains = dom.writer.arg, !.writer.pc = "baseURL"]
    /\ DomOnly

\* c.baseURL = "https://" + domains[0] (UpdateDomains: only for a non-empty
\* list), the configuration is saved, and the deferred c.mu.Unlock() runs.
WriteBaseURL ==
    /\ dom.writer.pc = "baseURL"
    /\ dom' = [dom EXCEPT
                  !.baseURL = IF dom.writer.op = "update"
                              THEN UpdatedBaseURL(dom.baseURL, dom.writer.arg)
                              ELSE URL(dom.domains[1]),
                  !.mu = "free",
                  !.last = [op |-> dom.writer.op, arg |-> dom.writer.arg],
                  !.writer = IdleWriter]
    /\ DomOnly

\* GetComicDetail: for _, domain := range c.domains, with no lock taken.
\* While the writer is about to store c.domains the read overlaps the store.
ReadDomains ==
    /\ dom.reader.pc = "idle"
    /\ \E saw \in {Whole(dom.domains)} \cup
                   (IF dom.writer.pc = "domains"
                    THEN {Whole(dom.writer.arg), Torn} ELSE {}) :
        dom' = [dom EXCEPT !.reader =
                   [pc |-> "read", op |-> "GetComicDetail", saw |-> saw,
                    locked |-> dom.mu # "free"]]
    /\ DomOnly

\* SearchComics and setHeaders: c.baseURL is read with no lock taken.
ReadBaseURL ==
    /\ dom.reader.pc = "idle"
    /\ \E saw \in {Whole(dom.baseURL)} \cup
                   (IF dom.writer.pc = "baseURL"
                    THEN {Whole(IF dom.writer.op = "update"
                                THEN UpdatedBaseURL(dom.baseURL, dom.writer.arg)
                                ELSE URL(dom.domains[1])), Torn}
                    ELSE {}) :
        dom' = [dom EXCEPT !.reader =
                   [pc |-> "read", op |-> "SearchComics", saw |-> saw,
                    locked |-> dom.mu # "free"]]
    /\ DomOnly

\* The reading call goes on with what it saw and returns.
ReaderReturn ==
    /\ dom.reader.pc = "read"
    /\ dom' = [dom EXCEPT !.reader = IdleReader]
    /\ DomOnly

DomNext ==
    \/ UpdateDomainsLock
    \/ ClearDomainsLock
    \/ WriteDomains
    \/ WriteBaseURL
    \/ ReadDomains
    \/ ReadBaseURL
    \/ ReaderReturn

(***************************************************************************)
(* CheckDomains: one probe goroutine per default domain, one goroutine     *)
(* that fetches more domains and starts a probe for each new one.          *)
(***************************************************************************)
MaxMoreDomains == 2

\* What fetchDomainsFromGitHub may return: known and new hosts, repeated or
\* not.
MoreDomainLists ==
    UNION {[1..n -> {"18comic.vip", "jm-new.cc"}] : n \in 0..MaxMoreDomains}

\* Task k <= 5 probes defaultDomains[k]; task 5 + j probes moreDomains[j].
ProbeTasks == 1..(Len(defaultDomains) + MaxMoreDomains)

ProbedDomain(more, t) ==
    IF t <= Len(defaultDomains) THEN defaultDomains[t]
    ELSE more[t - Len(defaultDomains)]

ProbeHosts == {defaultDomains[k] : k \in 1..Len(defaultDomains)} \cup {"jm-new.cc"}

\* results := make(map[string]string)
NoResults == [d \in ProbeHosts |-> "none"]

ChkStart == [pc |-> "idle", results |-> NoResults, mu |-> 0,
             task |-> [t \in ProbeTasks |-> "none"],
             gh |-> "none", more |-> <<>>, i |-> 0,
             access |-> [by |-> "none", holds |-> TRUE]]

ChkInit == chk = ChkStart

ChkIdle == chk = [pc |-> "off"]

ChkOnly ==
    UNCHANGED <<scr, dec, cli, get, cfg, fs, pdf, comic, dir, dl, chp, jobs, page,
                mpc, dom, tag,
                srch,
                bs,
                cht,
                gci,
                doc,
                wl>>

\* wg.Wait() would return: every started goroutine has called wg.Done().
ProbesDone(c) ==
    /\ c.gh = "done"
    /\ \A t \in ProbeTasks : c.task[t] \in {"none", "done"}

\* CheckDomains starts the probes of the default domains and the goroutine
\* that fetches more domains.
CheckDomainsCall ==
    /\ chk.pc = "idle"
    /\ chk' = [chk EXCEPT !.pc = "running", !.gh = "fetch",
                  !.task = [t \in ProbeTasks |->
                               IF t <= Len(defaultDomains) THEN "probe" ELSE "none"]]
    /\ ChkOnly

\* A probe has its answer (or its error) and takes the mutex: mu.Lock()
ProbeLock ==
    \E t \in ProbeTasks :
        /\ chk.pc = "running"
        /\ chk.task[t] = "probe"
        /\ chk.mu = 0
        /\ chk' = [chk EXCEPT !.mu = t, !.task[t] = "locked"]
        /\ ChkOnly

\* results[d] = "ok" or "fail"; mu.Unlock(); wg.Done()
ProbeRecord ==
    \E t \in ProbeTasks, status \in {"ok", "fail"} :
        /\ chk.pc = "running"
        /\ chk.task[t] = "locked"
        /\ chk' = [chk EXCEPT !.results[ProbedDomain(chk.more, t)] = status,
                      !.mu = 0, !.task[t] = "done",
                      !.access = [by |-> "probe", holds |-> chk.mu = t]]
        /\ ChkOnly

\* moreDomains := c.fetchDomainsFromGitHub()
GitHubFetch ==
    /\ chk.pc = "running"
    /\ chk.gh = "fetch"
    /\ \E more \in MoreDomainLists :
        chk' = [chk EXCEPT !.gh = "loop", !.more = more, !.i = 1]
    /\ ChkOnly

\* if _, exists := results[d]; !exists { wg.Add(1); go ... }: the map is
\* read without the mutex.  While a probe is inside its locked section the
\* read runs together with a map write: it may see either answer, or the
\* runtime stops the process (concurrent map read and map write).
GitHubCheck ==
    /\ chk.pc = "running"
    /\ chk.gh = "loop"
    /\ chk.i <= Len(chk.more)
    /\ LET d == chk.more[chk.i]
           t == Len(defaultDomains) + chk.i
           seen == [chk EXCEPT !.i = chk.i + 1,
                       !.access = [by |-> "github", holds |-> FALSE]]
           outcomes == IF chk.mu # 0 THEN {"exists", "absent", "fatal"}
                       ELSE IF chk.results[d] # "none" THEN {"exists"}
                       ELSE {"absent"}
       IN  \E outcome \in outcomes :
            chk' = IF outcome = "fatal" THEN [seen EXCEPT !.pc = "fatal"]
                   ELSE IF outcome = "absent" THEN [seen EXCEPT !.task[t] = "probe"]
                   ELSE seen
    /\ ChkOnly

\* The loop over moreDomains has ended: wg.Done()
GitHubDone ==
    /\ chk.pc = "running"
    /\ chk.gh = "loop"
    /\ chk.i > Len(chk.more)
    /\ chk' = [chk EXCEPT !.gh = "done"]
    /\ ChkOnly

\* wg.Wait() returns; return results, nil
CheckDomainsReturn ==
    /\ chk.pc = "running"
    /\ ProbesDone(chk)
    /\ chk' = [chk EXCEPT !.pc = "returned"]
    /\ ChkOnly

ChkNext ==
    \/ CheckDomainsCall
    \/ ProbeLock
    \/ ProbeRecord
    \/ GitHubFetch
    \/ GitHubCheck
    \/ GitHubDone
    \/ CheckDomainsReturn

(***************************************************************************)
(* fetchComicDetail: the tags of the genre block                           *)
(***************************************************************************)
MaxAnchors == 3

\* The text between <a ...> and </a> of an anchor of the genre block; an
\* anchor whose text has a space inside is not matched by
\* <a[^>]*>\s*(\S+)\s*</a>.
AnchorTexts == {<<"full-color">>, <<"school">>, <<"two", " ", "words">>}

GenreBlocks == UNION {[1..n -> AnchorTexts] : n \in 0..MaxAnchors}

\* aTagRe matches the anchor: its text is a single run of non-space.
Matches(text) == Len(text) = 1

\* tag := strings.TrimSpace(match[1]); if tag != "" { append }
AppendTag(tags, text) == Append(tags, text[1])

TagInit ==
    \E block \in GenreBlocks : tag = [pc |-> "loop", block |-> block, i |-> 1,
                                      Tags |-> <<>>]

TagIdle == tag = [pc |-> "off"]

TagOnly ==
    UNCHANGED <<scr, dec, cli, get, cfg, fs, pdf, comic, dir, dl, chp, jobs, page,
                mpc, dom, chk,
                srch,
                bs,
                cht,
                gci,
                doc,
                wl>>

\* for _, match := range tagMatches: one anchor of the block
ExtractTag ==
    /\ tag.pc = "loop"
    /\ tag.i <= Len(tag.block)
    /\ tag' = [tag EXCEPT !.i = tag.i + 1,
                  !.Tags = IF Matches(tag.block[tag.i])
                           THEN AppendTag(tag.Tags, tag.block[tag.i])
                           ELSE tag.Tags]
    /\ TagOnly

ExtractTagsDone ==
    /\ tag.pc = "loop"
    /\ tag.i > Len(tag.block)
    /\ tag' = [tag EXCEPT !.pc = "done"]
    /\ TagOnly

TagNext == ExtractTag \/ ExtractTagsDone

(***************************************************************************)
(* SearchComics                                                            *)
(***************************************************************************)
\* What the host of c.baseURL may answer to /search/photos: the number of
\* album cards of the page when the body is read.
SearchResponses ==
    {[net |-> FALSE, status |-> 0, read |-> FALSE, albums |-> 0]}
    \cup {[net |-> TRUE, status |-> st, read |-> FALSE, albums |-> 0] :
            st \in {302, 404, 200}}
    \cup {[net |-> TRUE, status |-> 200, read |-> TRUE, albums |-> n] :
            n \in 0..2}

\* fmt.Sprintf("%s/search/photos?search_query=%s&page=%d", c.baseURL, ...)
searchURL(baseURL, query, p) == [base |-> baseURL, query |-> query, page |-> p]

\* SearchComics after httpClient.Do: one answer, one result.
SearchResult(resp) ==
    IF ~resp.net THEN [ok |-> FALSE, err |-> "search failed", albums |-> 0]
    ELSE IF resp.status # 200
    THEN [ok |-> FALSE, err |-> "search returned status", albums |-> 0]
    ELSE IF ~resp.read THEN [ok |-> FALSE, err |-> "read", albums |-> 0]
    ELSE [ok |-> TRUE, err |-> "nil", albums |-> resp.albums]

SrchInit ==
    /\ \E jmDomains \in ConfiguredDomains : cli = NewJMClient(jmDomains)
    /\ get = [pc |-> "off"]
    /\ srch = [pc |-> "idle", attempts |-> <<>>,
               ret |-> [ok |-> FALSE, err |-> "pending", albums |-> 0]]

SrchIdle == srch = [pc |-> "off"]

SrchOnly ==
    UNCHANGED <<scr, dec, cli, get, cfg, fs, pdf, comic, dir, dl, chp, jobs, page,
                mpc, dom, chk, tag,
                bs,
                cht,
                gci,
                doc,
                wl>>

\* SearchComics(query, page) up to c.httpClient.Do(req)
SearchComicsCall ==
    /\ srch.pc = "idle"
    /\ \E query \in {"q1", "q2"}, p \in 1..2 :
        srch' = [srch EXCEPT !.pc = "sent",
                    !.attempts = <<searchURL(cli.baseURL, query, p)>>]
    /\ SrchOnly

\* The answer arrives; every branch returns.
SearchComicsReturn ==
    /\ srch.pc = "sent"
    /\ \E resp \in SearchResponses :
        srch' = [srch EXCEPT !.pc = "done", !.ret = SearchResult(resp)]
    /\ SrchOnly

SrchNext == SearchComicsCall \/ SearchComicsReturn

(***************************************************************************)
(* GetMaxPage: the searches of one call                                    *)
(***************************************************************************)
\* The number of non-empty result pages of the site, when its pages are
\* non-empty exactly for 1..P.
SiteCounts == {0, 1, 2, 7, 1500, 1501, 2999, 3000, 3001, 5000}

\* A site that answers each request as it likes.
AnyPattern == -1

\* What SearchComics(query, p) may give: results, no result, an error.
\* A site with P pages gives results exactly for p <= P and never fails.
ProbeAnswers(site, p) ==
    IF site = AnyPattern THEN {"results", "empty", "error"}
    ELSE IF p <= site THEN {"results"} ELSE {"empty"}

StartAtZero == [low |-> 0, high |-> MaxSearchPage]

\* low, high := 1, 3000
SearchRange == [low |-> 1, high |-> MaxSearchPage]

\* if err != nil || len(midResults) == 0 { high = mid - 1 } else { low = mid }
Narrow(low, high, answer) ==
    IF answer # "results" THEN [low |-> low, high |-> Mid(low, high) - 1]
    ELSE [low |-> Mid(low, high), high |-> high]

\* An entry older than 24 hours left by an earlier call.
StaleEntry == [MaxPage |-> 7, Timestamp |-> 0]

BsNow == CacheHours + 1

BsInit ==
    \E site \in SiteCounts \cup {AnyPattern}, before \in {NoEntry, StaleEntry} :
        bs = [pc |-> "first", site |-> site, low |-> 0, high |-> 0,
              probes |-> 0, probeErr |-> FALSE, first |-> "pending",
              before |-> before, entry |-> before,
              ret |-> [page |-> 0, err |-> "pending"]]

BsIdle == bs = [pc |-> "off"]

BsOnly ==
    UNCHANGED <<scr, dec, cli, get, cfg, fs, pdf, comic, dir, dl, chp, jobs, page,
                mpc, dom, chk, tag, srch,
                cht,
                gci,
                doc,
                wl>>

\* results, err := c.SearchComics(query, 1) and the two early returns
FirstPage ==
    /\ bs.pc = "first"
    /\ \E answer \in ProbeAnswers(bs.site, 1) :
        IF answer = "error"
        THEN bs' = [bs EXCEPT !.pc = "done", !.first = answer,
                              !.ret = [page |-> 0, err |-> "search"]]
        ELSE IF answer = "empty"
        THEN bs' = [bs EXCEPT !.pc = "done", !.first = answer,
                              !.ret = [page |-> 0, err |-> "nil"]]
        ELSE bs' = [bs EXCEPT !.pc = "search", !.first = answer,
                              !.low = SearchRange.low, !.high = SearchRange.high]
    /\ BsOnly

\* for low < high: one probe of page mid
Probe ==
    /\ bs.pc = "search"
    /\ bs.low < bs.high
    /\ \E answer \in ProbeAnswers(bs.site, Mid(bs.low, bs.high)) :
        LET r == Narrow(bs.low, bs.high, answer)
        IN  bs' = [bs EXCEPT !.low = r.low, !.high = r.high,
                             !.probes = bs.probes + 1,
                             !.probeErr = bs.probeErr \/ answer = "error"]
    /\ BsOnly

\* maxPage := low; c.maxPageCache[query] = &maxPageCacheEntry{...}; return
StoreMaxPage ==
    /\ bs.pc = "search"
    /\ bs.low >= bs.high
    /\ bs' = [bs EXCEPT !.pc = "done",
                        !.entry = [MaxPage |-> bs.low, Timestamp |-> BsNow],
                        !.ret = [page |-> bs.low, err |-> "nil"]]
    /\ BsOnly

BsNext == FirstPage \/ Probe \/ StoreMaxPage

(***************************************************************************)
(* downloadChapter: the semaphore, the mutex and the wait group            *)
(***************************************************************************)
KeepSlot(slots) == slots

\* defer func() { <-semaphore }()
ReleaseSlot(slots) == slots - 1

\* The tasks of one chapter, counted by where they stand:
\*   start   before semaphore <- struct{}{}
\*   fetch   in d.client.DownloadImage      write   in os.WriteFile
\*   errWait at mu.Lock() with an error     imgWait at mu.Lock() with an image
\*   errLock, imgLock between mu.Lock() and mu.Unlock()
\* slots is len(semaphore), mu the state of the mutex, wg the wait group.
ChtInit ==
    \E n \in 0..MaxChapterTasks :
        cht = [pc |-> "wait", n |-> n, start |-> n, fetch |-> 0, write |-> 0,
               errWait |-> 0, imgWait |-> 0, errLock |-> 0, imgLock |-> 0,
               slots |-> 0, mu |-> FALSE, wg |-> n, errors |-> FALSE,
               ok |-> FALSE]

ChtIdle == cht = [pc |-> "off"]

ChtOnly ==
    UNCHANGED <<scr, dec, cli, get, cfg, fs, pdf, comic, dir, dl, chp, jobs, page,
                mpc, dom, chk, tag, srch, bs,
                gci,
                doc,
                wl>>

\* semaphore <- struct{}{}: blocks while the channel holds 10
AcquireSlot ==
    /\ cht.pc = "wait"
    /\ cht.start > 0
    /\ cht.slots < SemaphoreSize
    /\ cht' = [cht EXCEPT !.start = @ - 1, !.fetch = @ + 1, !.slots = @ + 1]
    /\ ChtOnly

\* data, err := d.client.DownloadImage(url), the decoding after it
FetchImage ==
    /\ cht.pc = "wait"
    /\ cht.fetch > 0
    /\ \E ok \in BOOLEAN :
        IF ok THEN cht' = [cht EXCEPT !.fetch = @ - 1, !.write = @ + 1]
        ELSE cht' = [cht EXCEPT !.fetch = @ - 1, !.errWait = @ + 1]
    /\ ChtOnly

\* os.WriteFile(imagePath, decodedData, 0644)
WriteImage ==
    /\ cht.pc = "wait"
    /\ cht.write > 0
    /\ \E ok \in BOOLEAN :
        IF ok THEN cht' = [cht EXCEPT !.write = @ - 1, !.imgWait = @ + 1]
        ELSE cht' = [cht EXCEPT !.write = @ - 1, !.errWait = @ + 1]
    /\ ChtOnly

\* mu.Lock() of a task that has an error or an image to record
LockMu ==
    /\ cht.pc = "wait"
    /\ ~cht.mu
    /\ \/ /\ cht.errWait > 0
          /\ cht' = [cht EXCEPT !.errWait = @ - 1, !.errLock = @ + 1, !.mu = TRUE]
       \/ /\ cht.imgWait > 0
          /\ cht' = [cht EXCEPT !.imgWait = @ - 1, !.imgLock = @ + 1, !.mu = TRUE]
    /\ ChtOnly

\* errors = append(errors, ...) or images[index] = ...; mu.Unlock(); the
\* task returns: the deferred receive frees its slot, then wg.Done().
UnlockMuReturn ==
    /\ cht.pc = "wait"
    /\ \/ /\ cht.errLock > 0
          /\ cht' = [cht EXCEPT !.errLock = @ - 1, !.mu = FALSE, !.errors = TRUE,
                                !.slots = ReleaseSlot(cht.slots), !.wg = @ - 1]
       \/ /\ cht.imgLock > 0
          /\ cht' = [cht EXCEPT !.imgLock = @ - 1, !.mu = FALSE,
                                !.slots = ReleaseSlot(cht.slots), !.wg = @ - 1]
    /\ ChtOnly

\* wg.Wait() returns; if len(errors) > 0 { return nil, ... }
WaitReturn ==
    /\ cht.pc = "wait"
    /\ cht.wg = 0
    /\ cht' = [cht EXCEPT !.pc = "returned", !.ok = ~cht.errors]
    /\ ChtOnly

ChtNext ==
    \/ AcquireSlot
    \/ FetchImage
    \/ WriteImage
    \/ LockMu
    \/ UnlockMuReturn
    \/ WaitReturn

(***************************************************************************)
(* getChapterImages: the order of the filenames and the image URLs         *)
(***************************************************************************)
MaxPageArr == 3

\* A filename of page_arr: the characters before the extension, then the
\* extension.
PageNames ==
    {<<"2", ext>> : ext \in {".jpg", ".webp", ".JPG"}}
    \cup {<<"1", "0", ext>> : ext \in {".jpg", ".webp", ".JPG"}}
    \cup {<<"0", "3", ext>> : ext \in {".jpg", ".webp", ".JPG"}}

PageArrs == UNION {[1..n -> PageNames] : n \in 0..MaxPageArr}

ImageHosts == {"cdn-msp.jmcomic.org", "cdn.mirror"}

\* extractImageNum: (\d+)\.(?:jpg|jpeg|png|webp|gif), else 0
extractImageNum(filename) ==
    IF filename[Len(filename)] \in ImageExts
    THEN Atoi(SubSeq(filename, 1, Len(filename) - 1))
    ELSE 0

\* sort.Slice(chapter.ImageNames, less by extractImageNum): slices of at
\* most 12 elements are sorted by insertion, which keeps ties in place.
RECURSIVE SortByImageNum(_)
SortByImageNum(names) ==
    IF names = <<>> THEN <<>>
    ELSE LET least == CHOOSE k \in 1..Len(names) :
                          \A j \in 1..Len(names) :
                              \/ extractImageNum(names[k]) < extractImageNum(names[j])
                              \/ /\ extractImageNum(names[k]) = extractImageNum(names[j])
                                 /\ k <= j
             rest == [j \in 1..(Len(names) - 1) |->
                          IF j < least THEN names[j] ELSE names[j + 1]]
         IN  <<names[least]>> \o SortByImageNum(rest)

\* fmt.Sprintf("https://%s/media/photos/%s/%s", DataOrigDomain, photoID, imgName)
ImageURL(host, photoID, imgName) ==
    <<"https://", host, "/media/photos/", photoID, "/">> \o imgName

GciInit ==
    \E pageArr \in PageArrs, host \in ImageHosts :
        gci = [pc |-> "sort", DataOrigDomain |-> host, photoID |-> "421926",
               ImageNames |-> pageArr, ImageURLs |-> <<>>, i |-> 1]

GciIdle == gci = [pc |-> "off"]

GciOnly ==
    UNCHANGED <<scr, dec, cli, get, cfg, fs, pdf, comic, dir, dl, chp, jobs, page,
                mpc, dom, chk, tag, srch, bs, cht,
                doc,
                wl>>

\* sort.Slice(chapter.ImageNames, ...)
SortImageNames ==
    /\ gci.pc = "sort"
    /\ gci' = [gci EXCEPT !.pc = "urls",
                          !.ImageNames = SortByImageNum(gci.ImageNames)]
    /\ GciOnly

\* for _, imgName := range chapter.ImageNames: one URL appended
AppendImageURL ==
    /\ gci.pc = "urls"
    /\ gci.i <= Len(gci.ImageNames)
    /\ gci' = [gci EXCEPT !.i = gci.i + 1,
                  !.ImageURLs = Append(gci.ImageURLs,
                      ImageURL(gci.DataOrigDomain, gci.photoID,
                               gci.ImageNames[gci.i]))]
    /\ GciOnly

\* return chapter, nil
GetChapterImagesReturn ==
    /\ gci.pc = "urls"
    /\ gci.i > Len(gci.ImageNames)
    /\ gci' = [gci EXCEPT !.pc = "done"]
    /\ GciOnly

GciNext == SortImageNames \/ AppendImageURL \/ GetChapterImagesReturn

(***************************************************************************)
(* createSinglePDF: the image loop                                         *)
(***************************************************************************)
MaxChunkImages == 3

\* How far an image of the chunk gets: os.ReadFile fails; os.Open or
\* image.DecodeConfig fails; pdf.Image fails; the image is embedded.
ImageFates == {"unreadable", "undecodable", "unembeddable", "embedded"}

ChunkImages == UNION {[1..n -> ImageFates] : n \in 1..MaxChunkImages}

\* A page of the document: the image it was added for, and whether
\* pdf.Image drew it.
NewPage(index) == [of |-> index, drawn |-> FALSE]

DocInit ==
    \E images \in ChunkImages :
        doc = [pc |-> "loop", images |-> images, i |-> 1, pages |-> <<>>,
               ret |-> "pending"]

DocIdle == doc = [pc |-> "off"]

DocOnly ==
    UNCHANGED <<scr, dec, cli, get, cfg, fs, pdf, comic, dir, dl, chp, jobs, page,
                mpc, dom, chk, tag, srch, bs, cht, gci,
                wl>>

\* for _, img := range images, up to image.DecodeConfig: a failure skips
\* the image
ReadAndDecode ==
    /\ doc.pc = "loop"
    /\ doc.i <= Len(doc.images)
    /\ IF doc.images[doc.i] \in {"unreadable", "undecodable"}
       THEN doc' = [doc EXCEPT !.i = doc.i + 1]
       ELSE doc' = [doc EXCEPT !.pc = "page"]
    /\ DocOnly

\* pdf.AddPageWithOption(...)
AddPage ==
    /\ doc.pc = "page"
    /\ doc' = [doc EXCEPT !.pc = "image",
                          !.pages = Append(doc.pages, NewPage(doc.i))]
    /\ DocOnly

\* err = pdf.Image(imagePath, 0, 0, ...); if err != nil { continue }: the
\* page added by pdf.AddPageWithOption stays in the document.
DrawImage ==
    /\ doc.pc = "image"
    /\ IF doc.images[doc.i] = "embedded"
       THEN doc' = [doc EXCEPT !.pc = "loop", !.i = doc.i + 1,
                       !.pages[Len(doc.pages)].drawn = TRUE]
       ELSE doc' = [doc EXCEPT !.pc = "loop", !.i = doc.i + 1]
    /\ DocOnly

\* pdf.WritePdf(pdfPath)
WritePdf ==
    /\ doc.pc = "loop"
    /\ doc.i > Len(doc.images)
    /\ \E ok \in BOOLEAN :
        doc' = [doc EXCEPT !.pc = "done",
                           !.ret = IF ok THEN "nil" ELSE "failed to write PDF"]
    /\ DocOnly

DocNext == ReadAndDecode \/ AddPage \/ DrawImage \/ WritePdf

(***************************************************************************)
(* The download directory shared with other goroutines                     *)
(***************************************************************************)
\* The image with global index k: its chapter and its place in the chapter,
\* which is also the content TaskWrite saves for it.
PageAt(sizes, k) ==
    LET ch == CHOOSE c \in 1..Len(sizes) :
                  SumTo(sizes, c - 1) <= k /\ k < SumTo(sizes, c)
    IN  <<ch, k - SumTo(sizes, ch - 1)>>

\* os.WriteFile has created the file and not yet written its bytes.
Truncated == <<>>

\* The re-encoded bytes of page k that createSinglePDF writes: no page's
\* content.
Normalized(k) == <<0, k>>

\* tempFile := img.Path + ".normalized.jpg" / ".compressed.jpg"
TempNames(path) ==
    {path \o <<".normalized", ".jpg">>, path \o <<".compressed", ".jpg">>}

\* The other goroutines are followed up to this call's os.ReadDir: what
\* they write later cannot change the list it has read.
BeforeReadDir == dl.pc = "idle"

\* os.WriteFile(imagePath, ...) of a DownloadComic call for the same comic
\* running in another goroutine (main.go: go p.downloadComic): the file
\* appears, empty.
OtherCallCreates ==
    /\ BeforeReadDir
    /\ \E k \in 0..(Pages(comic) - 1) :
        LET imagePath == ImageName(k, comic.ext)
        IN  /\ imagePath \notin DOMAIN dir
            /\ dir' = WriteFile(dir, imagePath, Truncated)
    /\ UNCHANGED <<comic, dl, chp>>
    /\ DlOnly

\* ... and its bytes are written.
OtherCallCompletes ==
    /\ BeforeReadDir
    /\ \E k \in 0..(Pages(comic) - 1) :
        LET imagePath == ImageName(k, comic.ext)
        IN  /\ imagePath \in DOMAIN dir
            /\ dir[imagePath] = Truncated
            /\ dir' = WriteFile(dir, imagePath, PageAt(comic.sizes, k))
    /\ UNCHANGED <<comic, dl, chp>>
    /\ DlOnly

\* createSinglePDF of a CreatePDF call in another goroutine writes the
\* temporary file of an image.
TempFileWrite ==
    /\ BeforeReadDir
    /\ \E k \in 0..(Pages(comic) - 1) :
        LET imagePath == ImageName(k, comic.ext)
        IN  /\ imagePath \in DOMAIN dir
            /\ dir[imagePath] # Truncated
            /\ \E tempFile \in TempNames(imagePath) :
                /\ tempFile \notin DOMAIN dir
                /\ dir' = WriteFile(dir, tempFile, Normalized(k))
    /\ UNCHANGED <<comic, dl, chp>>
    /\ DlOnly

\* defer: for _, tf := range tempFiles { os.Remove(tf) }
TempFileRemove ==
    /\ BeforeReadDir
    /\ \E name \in DOMAIN dir :
        /\ \E imagePath \in DOMAIN dir : name \in TempNames(imagePath)
        /\ dir' = RemoveFile(dir, name)
    /\ UNCHANGED <<comic, dl, chp>>
    /\ DlOnly

SharedDirNext ==
    \/ DownloadComicCall
    \/ OtherCallCreates
    \/ OtherCallCompletes
    \/ TempFileWrite
    \/ TempFileRemove

(***************************************************************************)
(* Config: the whitelists                                                  *)
(***************************************************************************)
MaxWhitelist == 2

WhitelistIds == {10001, 10002, 10003}

\* The lists a configuration file may hold.
Whitelists == UNION {[1..n -> WhitelistIds] : n \in 0..MaxWhitelist}

ListOf(lists, isGroup) == IF isGroup THEN lists.group ELSE lists.person

\* Config.CheckWhitelist(isGroup, id): an empty list allows every id.
CheckWhitelist(lists, isGroup, id) ==
    LET whitelist == ListOf(lists, isGroup)
    IN  \/ Len(whitelist) = 0
        \/ \E k \in 1..Len(whitelist) : whitelist[k] = id

\* The loop of RemoveFromWhitelist: newList keeps every wid != id.
RECURSIVE Without(_, _)
Without(whitelist, id) ==
    IF whitelist = <<>> THEN <<>>
    ELSE IF whitelist[1] # id THEN <<whitelist[1]>> \o Without(Tail(whitelist), id)
    ELSE Without(Tail(whitelist), id)

WithList(lists, isGroup, list) ==
    IF isGroup THEN [lists EXCEPT !.group = list]
    ELSE [lists EXCEPT !.person = list]

WlInit ==
    \E person \in Whitelists, group \in Whitelists :
        wl = [lists |-> [person |-> person, group |-> group],
              op |-> "none", isGroup |-> FALSE, id |-> 0,
              before |-> [person |-> person, group |-> group]]

WlIdle == wl = [pc |-> "off"]

WlOnly ==
    UNCHANGED <<scr, dec, cli, get, cfg, fs, pdf, comic, dir, dl, chp, jobs, page,
                mpc, dom, chk, tag, srch, bs, cht, gci, doc>>

\* Config.AddToWhitelist(isGroup, id)
AddToWhitelist ==
    /\ \E isGroup \in BOOLEAN, id \in WhitelistIds :
        LET whitelist == ListOf(wl.lists, isGroup)
        IN  wl' = [lists |-> IF \E k \in 1..Len(whitelist) : whitelist[k] = id
                             THEN wl.lists
                             ELSE WithList(wl.lists, isGroup, Append(whitelist, id)),
                   op |-> "add", isGroup |-> isGroup, id |-> id,
                   before |-> wl.lists]
    /\ WlOnly

\* Config.RemoveFromWhitelist(isGroup, id)
RemoveFromWhitelist ==
    /\ \E isGroup \in BOOLEAN, id \in WhitelistIds :
        wl' = [lists |-> WithList(wl.lists, isGroup,
                                  Without(ListOf(wl.lists, isGroup), id)),
               op |-> "remove", isGroup |-> isGroup, id |-> id,
               before |-> wl.lists]
    /\ WlOnly

WlNext == AddToWhitelist \/ RemoveFromWhitelist

(***************************************************************************)
(* Specifications                                                          *)
(***************************************************************************)
InitScramble == ScrInit /\ DecIdle /\ CliIdle /\ PdfIdle /\ DlIdle /\ JobIdle /\ PageIdle /\ MpcIdle /\ DomIdle /\ ChkIdle /\ TagIdle
        /\ SrchIdle
        /\ BsIdle
        /\ ChtIdle
        /\ GciIdle
        /\ DocIdle
        /\ WlIdle

SpecScramble == InitScramble /\ [][ScrNext]_vars

InitDecode == DecInit /\ ScrIdle /\ CliIdle /\ PdfIdle /\ DlIdle /\ JobIdle /\ PageIdle /\ MpcIdle /\ DomIdle /\ ChkIdle /\ TagIdle
        /\ SrchIdle
        /\ BsIdle
        /\ ChtIdle
        /\ GciIdle
        /\ DocIdle
        /\ WlIdle

SpecDecode == InitDecode /\ [][DecNext]_vars

InitFetch == CliInit /\ ScrIdle /\ DecIdle /\ PdfIdle /\ DlIdle /\ JobIdle /\ PageIdle /\ MpcIdle /\ DomIdle /\ ChkIdle /\ TagIdle
        /\ SrchIdle
        /\ BsIdle
        /\ ChtIdle
        /\ GciIdle
        /\ DocIdle
        /\ WlIdle

SpecFetch == InitFetch /\ [][CliNext]_vars

InitPDF == PdfInit /\ ScrIdle /\ DecIdle /\ CliIdle /\ DlIdle /\ JobIdle /\ PageIdle /\ MpcIdle /\ DomIdle /\ ChkIdle /\ TagIdle
        /\ SrchIdle
        /\ BsIdle
        /\ ChtIdle
        /\ GciIdle
        /\ DocIdle
        /\ WlIdle

SpecPDF == InitPDF /\ [][PdfNext]_vars

InitDownload == DlInit /\ ScrIdle /\ DecIdle /\ CliIdle /\ PdfIdle /\ JobIdle /\ PageIdle /\ MpcIdle /\ DomIdle /\ ChkIdle /\ TagIdle
        /\ SrchIdle
        /\ BsIdle
        /\ ChtIdle
        /\ GciIdle
        /\ DocIdle
        /\ WlIdle

SpecDownload == InitDownload /\ [][DlNext]_vars

InitCommands == JobInit /\ ScrIdle /\ DecIdle /\ CliIdle /\ PdfIdle /\ DlIdle /\ PageIdle /\ MpcIdle /\ DomIdle /\ ChkIdle /\ TagIdle
        /\ SrchIdle
        /\ BsIdle
        /\ ChtIdle
        /\ GciIdle
        /\ DocIdle
        /\ WlIdle

SpecCommands == InitCommands /\ [][JobNext]_vars

InitPage ==
    PageInit /\ ScrIdle /\ DecIdle /\ CliIdle /\ PdfIdle /\ DlIdle /\ JobIdle
        /\ MpcIdle /\ DomIdle /\ ChkIdle /\ TagIdle
        /\ SrchIdle
        /\ BsIdle
        /\ ChtIdle
        /\ GciIdle
        /\ DocIdle
        /\ WlIdle

SpecPage == InitPage /\ [][PageNext]_vars

InitMaxPage ==
    MpcInit /\ ScrIdle /\ DecIdle /\ CliIdle /\ PdfIdle /\ DlIdle /\ JobIdle
        /\ PageIdle /\ DomIdle /\ ChkIdle /\ TagIdle
        /\ SrchIdle
        /\ BsIdle
        /\ ChtIdle
        /\ GciIdle
        /\ DocIdle
        /\ WlIdle

SpecMaxPage == InitMaxPage /\ [][MpcNext]_vars

InitDomains ==
    DomInit /\ ScrIdle /\ DecIdle /\ CliIdle /\ PdfIdle /\ DlIdle /\ JobIdle
        /\ PageIdle /\ MpcIdle /\ ChkIdle /\ TagIdle
        /\ SrchIdle
        /\ BsIdle
        /\ ChtIdle
        /\ GciIdle
        /\ DocIdle
        /\ WlIdle

SpecDomains == InitDomains /\ [][DomNext]_vars

InitCheck ==
    ChkInit /\ ScrIdle /\ DecIdle /\ CliIdle /\ PdfIdle /\ DlIdle /\ JobIdle
        /\ PageIdle /\ MpcIdle /\ DomIdle /\ TagIdle
        /\ SrchIdle
        /\ BsIdle
        /\ ChtIdle
        /\ GciIdle
        /\ DocIdle
        /\ WlIdle

SpecCheck == InitCheck /\ [][ChkNext]_vars

InitTags ==
    TagInit /\ ScrIdle /\ DecIdle /\ CliIdle /\ PdfIdle /\ DlIdle /\ JobIdle
        /\ PageIdle /\ MpcIdle /\ DomIdle /\ ChkIdle
        /\ SrchIdle
        /\ BsIdle
        /\ ChtIdle
        /\ GciIdle
        /\ DocIdle
        /\ WlIdle

SpecTags == InitTags /\ [][TagNext]_vars

InitSearch ==
    SrchInit /\ ScrIdle /\ DecIdle /\ PdfIdle /\ DlIdle /\ JobIdle /\ PageIdle
        /\ MpcIdle /\ DomIdle /\ ChkIdle /\ TagIdle
        /\ BsIdle
        /\ ChtIdle
        /\ GciIdle
        /\ DocIdle
        /\ WlIdle

SpecSearch == InitSearch /\ [][SrchNext]_vars

InitBinarySearch ==
    BsInit /\ ScrIdle /\ DecIdle /\ CliIdle /\ PdfIdle /\ DlIdle /\ JobIdle
        /\ PageIdle /\ MpcIdle /\ DomIdle /\ ChkIdle /\ TagIdle /\ SrchIdle
        /\ ChtIdle
        /\ GciIdle
        /\ DocIdle
        /\ WlIdle

SpecBinarySearch == InitBinarySearch /\ [][BsNext]_vars

InitChapterImages ==
    GciInit /\ ScrIdle /\ DecIdle /\ CliIdle /\ PdfIdle /\ DlIdle /\ JobIdle
        /\ PageIdle /\ MpcIdle /\ DomIdle /\ ChkIdle /\ TagIdle /\ SrchIdle
        /\ BsIdle /\ ChtIdle
        /\ DocIdle
        /\ WlIdle

SpecChapterImages == InitChapterImages /\ [][GciNext]_vars

InitSinglePDF ==
    DocInit /\ ScrIdle /\ DecIdle /\ CliIdle /\ PdfIdle /\ DlIdle /\ JobIdle
        /\ PageIdle /\ MpcIdle /\ DomIdle /\ ChkIdle /\ TagIdle /\ SrchIdle
        /\ BsIdle /\ ChtIdle /\ GciIdle
        /\ WlIdle

SpecSinglePDF == InitSinglePDF /\ [][DocNext]_vars

SpecSharedDir == InitDownload /\ [][SharedDirNext]_vars

InitWhitelist ==
    WlInit /\ ScrIdle /\ DecIdle /\ CliIdle /\ PdfIdle /\ DlIdle /\ JobIdle
        /\ PageIdle /\ MpcIdle /\ DomIdle /\ ChkIdle /\ TagIdle /\ SrchIdle
        /\ BsIdle /\ ChtIdle /\ GciIdle /\ DocIdle

SpecWhitelist == InitWhitelist /\ [][WlNext]_vars

InitChapter ==
    ChtInit /\ ScrIdle /\ DecIdle /\ CliIdle /\ PdfIdle /\ DlIdle /\ JobIdle
        /\ PageIdle /\ MpcIdle /\ DomIdle /\ ChkIdle /\ TagIdle /\ SrchIdle
        /\ BsIdle
        /\ GciIdle
        /\ DocIdle
        /\ WlIdle

\* Every fetch and every write returns, and the scheduler runs every
\* goroutine that can run.
SpecChapter ==
    /\ InitChapter
    /\ [][ChtNext]_vars
    /\ WF_vars(AcquireSlot)
    /\ WF_vars(FetchImage)
    /\ WF_vars(WriteImage)
    /\ WF_vars(LockMu)
    /\ WF_vars(UnlockMuReturn)
    /\ WF_vars(WaitReturn)

(***************************************************************************)
(* C2: the row mapping of DecodeScrambledImage is a permutation of the     *)
(* rows of the served image for every height and segment count: each       *)
(* served row is copied to exactly one row of the result, none is dropped  *)
(* and none is duplicated.                                                 *)
(***************************************************************************)
C2_RowsArePermutation ==
    (dec.pc = "done" /\ dec.ret.bytes # InputData) =>
        \A r \in 0..(dec.height - 1) :
            Cardinality({y \in 1..dec.height : dec.rows[y] = r}) = 1

(***************************************************************************)
(* C9: a chapter id below the marker gives 0; an id not below the marker   *)
(* but below 268850 gives exactly 10.                                      *)
(***************************************************************************)
C9_BelowMarkerZeroLegacyTen ==
    scr.pc = "done" =>
        LET aid == Atoi(scr.photoID)
            marker == Atoi(scr.scrambleID)
        IN  /\ aid < marker => scr.num = 0
            /\ (aid >= marker /\ aid < 268850) => scr.num = 10

C9_Witness ==
    /\ scr.pc = "done"
    /\ Atoi(scr.photoID) = 268849
    /\ Atoi(scr.scrambleID) = 220980
    /\ scr.num = 10

(***************************************************************************)
(* C10 as claimed: past both thresholds the result is                      *)
(* ((final digest byte) mod x) * 2 + 2, x = 8 from 421926 on, else 10.     *)
(***************************************************************************)
C10_FinalByteValue ==
    (scr.pc = "done" /\ scr.hashed) =>
        LET x == IF Atoi(scr.photoID) >= 421926 THEN 8 ELSE 10
        IN  scr.num = (scr.lastByte % x) * 2 + 2

(***************************************************************************)
(* C10 amended: the value reduced mod x is the ASCII code of the last      *)
(* character of the lowercase hex encoding of the digest ('0'..'9' are     *)
(* 48..57, 'a'..'f' are 97..102), the hashed string is the decimal id      *)
(* followed by the file name, and the result is even, in 2..20 (2..16      *)
(* when x = 8).                                                            *)
(***************************************************************************)
C10_HexCharCode ==
    (scr.pc = "done" /\ scr.hashed) =>
        LET aid == Atoi(scr.photoID)
            x == IF aid >= 421926 THEN 8 ELSE 10
            nib == scr.lastByte % 16
            code == IF nib < 10 THEN 48 + nib ELSE 87 + nib
        IN  /\ aid >= 268850 /\ aid >= Atoi(scr.scrambleID)
            /\ scr.num = (code % x) * 2 + 2
            /\ scr.num % 2 = 0
            /\ scr.num \in 2..(2 * x)
            /\ scr.md5in = Itoa(aid) \o scr.filename

C10_Witness ==
    /\ scr.pc = "done"
    /\ scr.hashed
    /\ scr.lastByte = 175
    /\ Atoi(scr.photoID) = 421926
    /\ scr.num = 14

(***************************************************************************)
(* C1: GetComicDetail contacts the mirrors strictly in list order, goes    *)
(* on to the next mirror after any error, stops at the first success       *)
(* without contacting a later mirror, and when every mirror fails (for     *)
(* instance with a non-200 status) it has made exactly len(mirrors)        *)
(* album-page attempts and reports the error of the last mirror tried.     *)
(***************************************************************************)
C1_FailoverInOrder ==
    LET n == Len(get.attempts)
    IN  get.pc \in {"loop", "done"} =>
        /\ n <= Len(get.rng)
        /\ \A j \in 1..n : get.attempts[j].url = URL(get.rng[j])
        /\ \A j \in 1..(n - 1) : get.attempts[j].kind # "ok"
        /\ get.pc = "loop" =>
              /\ get.i = n + 1
              /\ \A j \in 1..n : get.attempts[j].kind # "ok"
        /\ (get.pc = "done" /\ get.ret.ok) =>
              /\ n >= 1
              /\ get.attempts[n].kind = "ok"
              /\ get.ret.comic.from = URL(get.rng[n])
        /\ (get.pc = "done" /\ ~get.ret.ok) =>
              /\ n = Len(get.rng)
              /\ get.attempts[n].kind # "ok"
              /\ get.ret.err.kind = "alldomains"
              /\ get.ret.err.cause.kind = get.attempts[n].kind
              /\ get.ret.err.cause.url = URL(get.rng[n])
              /\ get.ret.err.cause.status = get.attempts[n].status

C1_Witness ==
    /\ get.pc = "done"
    /\ ~get.ret.ok
    /\ Len(get.attempts) = 5
    /\ \A j \in 1..5 : get.attempts[j].kind = "status"
    /\ get.attempts[1].status # get.attempts[5].status

(***************************************************************************)
(* C8 as claimed: a mirror that answers the album page with 200 but        *)
(* yields no chapter ends the call at once with a no-chapters error: no    *)
(* later mirror is contacted.                                              *)
(***************************************************************************)
C8_NoChaptersSurfaced ==
    get.pc = "done" =>
        \A j \in 1..Len(get.attempts) :
            get.attempts[j].kind = "nochapters" =>
                /\ j = Len(get.attempts)
                /\ ~get.ret.ok
                /\ get.ret.err.kind = "nochapters"

(***************************************************************************)
(* C8 amended: a mirror that answers the album page with 200 but yields    *)
(* no chapter counts as a failed mirror like any other: GetComicDetail     *)
(* goes on to the next mirror of the list, and only when it was the last   *)
(* mirror does the call fail, with the same all-domains error as every     *)
(* other exhaustion, carrying the no-chapters error as its cause.          *)
(***************************************************************************)
C8_NoChaptersTriesNext ==
    \A j \in 1..Len(get.attempts) :
        get.attempts[j].kind = "nochapters" =>
            /\ get.attempts[j].status = 200
            /\ (get.pc = "done" /\ j < Len(get.rng)) =>
                  /\ Len(get.attempts) > j
                  /\ get.attempts[j + 1].url = URL(get.rng[j + 1])
            /\ (get.pc = "done" /\ ~get.ret.ok) =>
                  get.ret.err.kind = "alldomains"
            /\ (get.pc = "done" /\ j = Len(get.attempts)) =>
                  /\ j = Len(get.rng)
                  /\ ~get.ret.ok
                  /\ get.ret.err.cause.kind = "nochapters"

C8_Witness ==
    /\ get.pc = "done"
    /\ Len(get.attempts) = 2
    /\ get.attempts[1].kind = "nochapters"
    /\ get.attempts[2].kind = "ok"
    /\ get.ret.ok

(***************************************************************************)
(* C6: with maxPagesPerFile = M > 0 and N > 0 images a successful          *)
(* CreatePDF returns ceil(N/M) paths; the i-th belongs to the images       *)
(* [i*M, min((i+1)*M, N)), so every chunk has M images except possibly     *)
(* the last; one chunk is named {id}.pdf, several are named                *)
(* {id}-part1.pdf, {id}-part2.pdf, ... in order.                           *)
(***************************************************************************)
C6_ChunkingLaw ==
    (pdf.pc = "done" /\ pdf.ret.ok /\ cfg.PDFMaxPages > 0) =>
        LET M == cfg.PDFMaxPages
            N == pdf.n
            count == CHOOSE c \in 1..N : c * M >= N /\ (c - 1) * M < N
        IN  /\ N > 0
            /\ Len(pdf.ret.paths) = count
            /\ Len(pdf.chunks) = count
            /\ \A i \in 0..(count - 1) :
                  LET last == IF (i + 1) * M < N THEN (i + 1) * M ELSE N
                  IN  /\ pdf.chunks[i + 1] = <<i * M, last>>
                      /\ i < count - 1 => last - i * M = M
                      /\ last - i * M \in 1..M
                      /\ pdf.ret.paths[i + 1] =
                            IF count = 1 THEN <<ComicID, ".pdf">>
                            ELSE <<ComicID, "-part", DigitChars[i + 2], ".pdf">>

C6_Witness ==
    /\ pdf.pc = "done"
    /\ pdf.ret.ok
    /\ cfg.PDFMaxPages = 2
    /\ pdf.n = 3
    /\ pdf.ret.paths = << <<ComicID, "-part", "1", ".pdf">>,
                          <<ComicID, "-part", "2", ".pdf">> >>

(***************************************************************************)
(* C7: whenever a non-empty password is configured and CreatePDF returns   *)
(* successfully, every file it returns is encrypted with that password.    *)
(***************************************************************************)
C7_ReturnedFilesEncrypted ==
    (pdf.pc = "done" /\ pdf.ret.ok /\ cfg.PDFPassword # "") =>
        \A i \in 1..Len(pdf.ret.paths) :
            /\ Exists(fs, pdf.ret.paths[i])
            /\ fs[pdf.ret.paths[i]].kind = "encrypted"
            /\ fs[pdf.ret.paths[i]].password = cfg.PDFPassword

(***************************************************************************)
(* Downloader claims, checked under SpecDownload                           *)
(***************************************************************************)

\* C3: a DownloadComic call that starts when the directory already holds
\* comic.Pages image files (of a comic with at least one page) performs no
\* network fetch and returns successfully comic.Pages images with the
\* global indices 0..Pages-1; when the call before it succeeded, the two
\* calls return the same number of images with the same indices.
C3_SecondCallReuses ==
    (dl.pc = "done" /\ dl.heldAll /\ Pages(comic) > 0) =>
        /\ dl.fetches = 0
        /\ dl.ret.ok
        /\ Len(dl.ret.images) = Pages(comic)
        /\ \A k \in 1..Len(dl.ret.images) : dl.ret.images[k].Index = k - 1
        /\ dl.prev.ok =>
              /\ Len(dl.prev.images) = Len(dl.ret.images)
              /\ \A k \in 1..Len(dl.ret.images) :
                    dl.prev.images[k].Index = dl.ret.images[k].Index

C3_Witness ==
    /\ dl.pc = "done"
    /\ dl.calls = 2
    /\ dl.heldAll
    /\ dl.reused
    /\ dl.prev.ok
    /\ dl.fetches = 0
    /\ comic.sizes = <<2, 1>>
    /\ comic.ext = ".JPG"
    /\ Len(dl.ret.images) = 3

\* C4: when a fetch or a write of a chapter has failed, DownloadComic
\* returns only after every task of that chapter has finished (each one
\* has stored its image and written its file, or recorded its error), it
\* returns an error and no image, the chapter loop never goes on past a
\* chapter with a recorded error, and a successful fresh download has
\* every page.
C4_FailureFailsWholeComic ==
    /\ chp.errors # <<>> => dl.pc \in {"chapter", "done"}
    /\ (dl.pc = "done" /\ chp.errors # <<>>) =>
          /\ ~dl.ret.ok
          /\ dl.ret.images = <<>>
          /\ \A i \in DOMAIN chp.tasks :
                /\ chp.tasks[i] = "done"
                /\ \/ \E k \in DOMAIN chp.errors : chp.errors[k].index = i - 1
                   \/ /\ chp.images[i] # EmptyImage
                      /\ chp.images[i].Path \in DOMAIN dir
    /\ (dl.pc = "done" /\ dl.ret.ok /\ ~dl.reused) =>
          Len(dl.ret.images) = Pages(comic)

C4_Witness ==
    /\ dl.pc = "done"
    /\ ~dl.ret.ok
    /\ dl.ch = 2
    /\ Len(chp.tasks) = 2
    /\ Len(chp.errors) = 1
    /\ chp.errors[1].index = 0
    /\ chp.images[2] # EmptyImage
    /\ dl.allImages # <<>>

\* C5: a successful fresh download returns exactly comic.Pages images; the
\* k-th of them has the global index k-1, is the image at the k-th place
\* counting chapter by chapter and position by position, and is saved under
\* the four-digit index followed by the extension, in every reachable state
\* and so for every interleaving of the tasks.
C5_FreshDownloadDense ==
    (dl.pc = "done" /\ dl.ret.ok /\ ~dl.reused) =>
        /\ Len(dl.ret.images) = Pages(comic)
        /\ \A k \in 1..Len(dl.ret.images) :
              LET ch == CHOOSE c \in 1..Len(comic.sizes) :
                            /\ SumTo(comic.sizes, c - 1) < k
                            /\ k <= SumTo(comic.sizes, c)
                  pos == k - 1 - SumTo(comic.sizes, ch - 1)
                  ext == IF comic.ext = "" THEN ".jpg" ELSE comic.ext
              IN  /\ dl.ret.images[k].Index = k - 1
                  /\ dl.ret.images[k].Data = <<ch, pos>>
                  /\ dl.ret.images[k].Path = <<"0", "0", "0">> \o Itoa(k - 1) \o <<ext>>
                  /\ dl.ret.images[k].Path \in DOMAIN dir
                  /\ dir[dl.ret.images[k].Path] = <<ch, pos>>

C5_Witness ==
    /\ dl.pc = "done"
    /\ dl.ret.ok
    /\ ~dl.reused
    /\ dl.calls = 1
    /\ comic.sizes = <<1, 2>>
    /\ Len(dl.ret.images) = 3
    /\ dl.ret.images[3].Index = 2
    /\ dl.ret.images[3].Data = <<2, 1>>

(***************************************************************************)
(* Decode claims, checked under SpecDecode                                 *)
(***************************************************************************)

\* C11: DecodeScrambledImage never returns an error, and when the segment
\* count is 0 or the bytes do not decode as an image it returns its input
\* bytes unchanged.
C11_DegradesToInput ==
    dec.pc = "done" =>
        /\ dec.ret.err = "nil"
        /\ (dec.scrambleNum = 0 \/ ~dec.decodable) => dec.ret.bytes = InputData

C11_Witness ==
    /\ dec.pc = "done"
    /\ dec.decodable
    /\ dec.scrambleNum = 0
    /\ dec.ret = ReturnInput

(***************************************************************************)
(* Command-layer claims, checked under SpecCommands                        *)
(***************************************************************************)

\* C12: in every reachable state at most 10 image fetches are in flight in
\* the process, whatever the number of images of a chapter and of
\* DownloadComic calls running at the same time.
C12_GlobalFetchCap == FetchesInFlight(MaxConcurrentCalls) <= SemaphoreSize

(***************************************************************************)
(* PDF claims, checked under SpecPDF                                       *)
(***************************************************************************)

\* C13, as stated: an iteration that finds a file of more than 1024 bytes
\* at the chunk's path leaves every file as it is, builds and encrypts
\* nothing and appends the path; and every CreatePDF call made right after a
\* successful one, with the same images and configuration, builds nothing
\* and returns the same path list.
C13_SecondCallBuildsNothing ==
    [][/\ (/\ pdf.pc = "chunk"
           /\ pdf.chunkIdx < pdf.totalChunks
           /\ PdfPath(pdf.totalChunks, pdf.chunkIdx) \in DOMAIN fs
           /\ fs[PdfPath(pdf.totalChunks, pdf.chunkIdx)].big) =>
              /\ fs' = fs
              /\ pdf'.pc = "chunk"
              /\ pdf'.built = pdf.built
              /\ pdf'.pdfFiles =
                    Append(pdf.pdfFiles, PdfPath(pdf.totalChunks, pdf.chunkIdx))
       /\ (pdf.pc # "done" /\ pdf'.pc = "done" /\ pdf'.prev.ok
              /\ pdf'.n = pdf'.prev.n) =>
              /\ pdf'.built = 0
              /\ pdf'.ret.ok
              /\ pdf'.ret.paths = pdf'.prev.paths]_vars

\* C13, amended: an iteration that finds a file of more than 1024 bytes at
\* the chunk's path leaves every file as it is, builds and encrypts nothing
\* and appends the path, while a missing or smaller file is built again;
\* a CreatePDF call made right after a successful one, with the same images
\* and configuration, builds nothing and returns the same path list
\* provided every file the first call returned has more than 1024 bytes.
C13_SkipKeepsBuiltFile ==
    [][/\ (pdf.pc = "chunk" /\ pdf.chunkIdx < pdf.totalChunks) =>
              IF /\ PdfPath(pdf.totalChunks, pdf.chunkIdx) \in DOMAIN fs
                 /\ fs[PdfPath(pdf.totalChunks, pdf.chunkIdx)].big
              THEN /\ fs' = fs
                   /\ pdf'.pc = "chunk"
                   /\ pdf'.built = pdf.built
                   /\ pdf'.pdfFiles =
                         Append(pdf.pdfFiles, PdfPath(pdf.totalChunks, pdf.chunkIdx))
              ELSE pdf'.built = pdf.built + 1
       /\ (pdf.pc # "done" /\ pdf'.pc = "done" /\ pdf'.prev.ok
              /\ pdf'.n = pdf'.prev.n /\ pdf'.kept) =>
              /\ pdf'.built = 0
              /\ pdf'.ret.ok
              /\ pdf'.ret.paths = pdf'.prev.paths]_vars

C13_Witness ==
    /\ pdf.pc = "done"
    /\ pdf.calls = 2
    /\ pdf.prev.ok
    /\ pdf.kept
    /\ pdf.n = 3
    /\ pdf.prev.n = 3
    /\ pdf.built = 0
    /\ cfg.PDFPassword = "secret"
    /\ pdf.ret.ok
    /\ Len(pdf.ret.paths) = 2

\* C14: in every state during encryptPDF, and after it has returned with
\* success or with a failure of its encrypt, remove or rename step, the
\* target path holds the complete plaintext or the complete encrypted
\* document: it is never absent.
C14_TargetNeverAbsent ==
    LET pdfPath == PdfPath(pdf.totalChunks, pdf.chunkIdx)
        inside == pdf.pc \in {"encrypt", "remove", "rename"}
        failed == /\ pdf.pc = "done"
                  /\ ~pdf.ret.ok
                  /\ pdf.ret.err \in {"encrypt", "remove", "rename"}
    IN  (inside \/ failed) =>
            /\ Exists(fs, pdfPath)
            /\ fs[pdfPath].kind \in {"plain", "encrypted"}

(***************************************************************************)
(* Page size claims, checked under SpecPage                                *)
(***************************************************************************)

RECURSIVE SameRatio(_, _, _, _)
\* a/b = c/d for positive integers, by the steps of Euclid's algorithm
SameRatio(a, b, c, d) ==
    /\ a \div b = c \div d
    /\ IF a % b = 0 \/ c % d = 0
       THEN a % b = 0 /\ c % d = 0
       ELSE SameRatio(b, a % b, d, c % d)

\* C15, as stated: for an image wider than 1240 or higher than 1754 the
\* page has the image's aspect ratio, is at most 1240 wide and 1754 high,
\* and has no dimension below 100.
C15_ScaledPageKeepsRatio ==
    (page.pc = "added" /\ (page.Width > 1240 \/ page.Height > 1754)) =>
        /\ SameRatio(page.rect.W, page.rect.H, page.Width, page.Height)
        /\ page.rect.W <= 1240 * page.rect.den
        /\ page.rect.H <= 1754 * page.rect.den
        /\ page.rect.W >= 100 * page.rect.den
        /\ page.rect.H >= 100 * page.rect.den

\* C15, amended: for an image wider than 1240 or higher than 1754 the page
\* is at most 1240 wide and 1754 high and has no dimension below 100; it
\* has the image's aspect ratio when the image's ratio of longer to shorter
\* side lets both scaled dimensions reach 100 (width * 1754 >= 100 * height
\* and height * 1240 >= 100 * width), and otherwise the dimension that
\* scaling brought below 100 is exactly 100 and the ratio is not kept.
C15_ScaledPageInBox ==
    (page.pc = "added" /\ (page.Width > 1240 \/ page.Height > 1754)) =>
        /\ page.rect.W <= 1240 * page.rect.den
        /\ page.rect.H <= 1754 * page.rect.den
        /\ page.rect.W >= 100 * page.rect.den
        /\ page.rect.H >= 100 * page.rect.den
        /\ IF /\ page.Width * 1754 >= 100 * page.Height
              /\ page.Height * 1240 >= 100 * page.Width
           THEN SameRatio(page.rect.W, page.rect.H, page.Width, page.Height)
           ELSE /\ ~SameRatio(page.rect.W, page.rect.H, page.Width, page.Height)
                /\ \/ page.rect.W = 100 * page.rect.den
                   \/ page.rect.H = 100 * page.rect.den

C15_Witness ==
    /\ page.pc = "added"
    /\ page.Width = 2480
    /\ page.Height = 3508
    /\ page.rect = [W |-> 2480 * 1240, H |-> 3508 * 1240, den |-> 2480]

(***************************************************************************)
(* Cache claims, checked under SpecMaxPage                                 *)
(***************************************************************************)

\* C16, as stated: a call that finds an entry younger than 24 hours returns
\* the cached count without any search request; a call that finds an entry
\* of 24 hours or more searches again and overwrites the entry with the new
\* count and the current time.
C16_StaleEntryOverwritten ==
    mpc.call.pc = "done" =>
        /\ (mpc.call.age >= 0 /\ mpc.call.age < 24) =>
              /\ mpc.call.requests = 0
              /\ mpc.call.ret = [page |-> mpc.call.cached, err |-> "nil"]
        /\ mpc.call.age >= 24 =>
              /\ mpc.call.requests >= 1
              /\ mpc.cache[mpc.call.query].MaxPage = mpc.call.ret.page
              /\ mpc.cache[mpc.call.query].Timestamp >= mpc.call.start

\* C16, amended: a call that finds an entry younger than 24 hours returns
\* the cached count without any search request; a call that finds an entry
\* of 24 hours or more (or none) searches again, and when the search for
\* page 1 succeeds with results the entry is overwritten with the new count
\* and the current time, while a failed or empty first search returns 0
\* and leaves the old entry as it was.
C16_CacheValidFor24Hours ==
    mpc.call.pc = "done" =>
        /\ (mpc.call.age >= 0 /\ mpc.call.age < 24) =>
              /\ mpc.call.requests = 0
              /\ mpc.call.ret = [page |-> mpc.call.cached, err |-> "nil"]
              /\ mpc.cache[mpc.call.query] = mpc.call.before
        /\ (mpc.call.age >= 24 \/ mpc.call.age = -1) =>
              /\ mpc.call.requests >= 1
              /\ IF mpc.call.ret.err = "nil" /\ mpc.call.site > 0
                 THEN /\ mpc.call.ret.page = mpc.call.site
                      /\ mpc.cache[mpc.call.query].MaxPage = mpc.call.site
                      /\ mpc.cache[mpc.call.query].Timestamp >= mpc.call.start
                      /\ mpc.cache[mpc.call.query].Timestamp <= mpc.now
                 ELSE /\ mpc.call.ret.page = 0
                      /\ mpc.cache[mpc.call.query] = mpc.call.before

C16_Witness ==
    /\ mpc.call.pc = "done"
    /\ mpc.call.age = 24
    /\ mpc.call.cached = 7
    /\ mpc.call.site = 3000
    /\ mpc.call.requests > 1
    /\ mpc.cache[mpc.call.query] = [MaxPage |-> 3000, Timestamp |-> mpc.now]

(***************************************************************************)
(* Mirror list claims, checked under SpecDomains                           *)
(***************************************************************************)

\* C17: every read of c.domains and c.baseURL by GetComicDetail,
\* SearchComics and setHeaders is synchronized with UpdateDomains and
\* ClearDomains: no read is made while a writer holds c.mu, and no read
\* sees a half-written value.
C17_ReadersSynchronized ==
    dom.reader.pc = "read" => (~dom.reader.locked /\ ~dom.reader.saw.torn)

C18_MapAccessUnderMutex ==
    /\ chk.access.holds
    /\ chk.pc # "fatal"
    /\ chk.pc = "returned" =>
          \A t \in ProbeTasks :
              chk.task[t] # "none" =>
                  /\ chk.task[t] = "done"
                  /\ chk.results[ProbedDomain(chk.more, t)] # "none"

(***************************************************************************)
(* Tag claims, checked under SpecTags                                      *)
(***************************************************************************)

\* C19: the tag list keeps the order in which the tags appear in the genre
\* block (whenever one tag stands before another in the list, its first
\* anchor stands before the other's first anchor in the block, and every
\* tag is the text of an anchor) and holds no tag twice.
C19_TagsOrderedNoDuplicate ==
    tag.pc = "done" =>
        LET First(t) == CHOOSE k \in 1..Len(tag.block) :
                            /\ tag.block[k] = <<t>>
                            /\ \A j \in 1..(k - 1) : tag.block[j] # <<t>>
        IN  /\ \A k \in 1..Len(tag.Tags) :
                  \E j \in 1..Len(tag.block) : tag.block[j] = <<tag.Tags[k]>>
            /\ \A a, b \in 1..Len(tag.Tags) :
                  (a < b /\ tag.Tags[a] # tag.Tags[b]) =>
                      First(tag.Tags[a]) < First(tag.Tags[b])
            /\ \A a, b \in 1..Len(tag.Tags) : a # b => tag.Tags[a] # tag.Tags[b]

(***************************************************************************)
(* Search claims, checked under SpecSearch                                 *)
(***************************************************************************)

\* C21: SearchComics tries the candidate mirrors in list order and returns
\* an error only when all of them are exhausted: a call that returned an
\* error has made one request to each domain of c.domains, in list order.
C21_SearchTriesEveryMirror ==
    (srch.pc = "done" /\ ~srch.ret.ok) =>
        /\ Len(srch.attempts) = Len(cli.domains)
        /\ \A k \in 1..Len(cli.domains) :
              srch.attempts[k].base = URL(cli.domains[k])

(***************************************************************************)
(* Binary-search claims, checked under SpecBinarySearch                    *)
(***************************************************************************)
\* C22: on a site whose pages are non-empty exactly for 1..P, P >= 1,
\* GetMaxPage returns min(P, 3000); for every pattern of answers the loop
\* makes at most 12 probes (each iteration makes one, so it terminates),
\* the loop variables stay ordered within 1..3000, and the value returned
\* after a non-empty first page is within 1..3000.
C22_BinarySearchResult ==
    /\ bs.probes <= 12
    /\ bs.pc = "search" => (1 <= bs.low /\ bs.low <= bs.high
                               /\ bs.high <= MaxSearchPage)
    /\ (bs.pc = "done" /\ bs.first = "results") =>
          /\ bs.ret.err = "nil"
          /\ bs.ret.page \in 1..MaxSearchPage
          /\ bs.site # AnyPattern =>
                bs.ret.page = (IF bs.site < MaxSearchPage THEN bs.site
                               ELSE MaxSearchPage)

C22_Witness ==
    /\ bs.pc = "done"
    /\ bs.site = 3001
    /\ bs.ret.page = MaxSearchPage
    /\ bs.probes = 12

\* C27: GetMaxPage writes the cache only after probes that all completed
\* without error: when the first-page search failed or was empty, or some
\* probe of the binary search returned an error, the entry of the query is
\* the one the cache held before the call.
C27_CacheOnlyFromCleanProbes ==
    (bs.pc = "done" /\ (bs.first # "results" \/ bs.probeErr)) =>
        bs.entry = bs.before

\* C23: downloadChapter is a barrier.  Whenever DownloadComic is outside
\* downloadChapter (between chapters, or returned with success or with an
\* error) every task of the last chapter has finished; and while a task of
\* chapter k has not finished, DownloadComic is inside downloadChapter for
\* chapter k and every earlier chapter has delivered all its images, so no
\* task is started before the chapter before it is complete and none
\* after a chapter has failed.
C23_ChapterBarrier ==
    /\ dl.pc \in {"idle", "next", "done"} =>
          \A i \in DOMAIN chp.tasks : chp.tasks[i] = "done"
    /\ (\E i \in DOMAIN chp.tasks : chp.tasks[i] # "done") =>
          /\ dl.pc = "chapter"
          /\ Len(chp.tasks) = comic.sizes[dl.ch]
          /\ Len(dl.allImages) = SumTo(comic.sizes, dl.ch - 1)
          /\ dl.ret.err = "none"

C23_Witness ==
    /\ dl.pc = "done"
    /\ ~dl.ret.ok
    /\ dl.ch = 2
    /\ Len(chp.tasks) = 2
    /\ Len(chp.errors) = 1

(***************************************************************************)
(* Chapter-task claims, checked under SpecChapter                          *)
(***************************************************************************)
SlotsAreHeld ==
    /\ cht.slots <= SemaphoreSize
    /\ cht.slots = cht.fetch + cht.write + cht.errWait + cht.imgWait
                      + cht.errLock + cht.imgLock
    /\ cht.wg = cht.start + cht.slots

MuHeldOnlyForRecord ==
    /\ cht.errLock + cht.imgLock <= 1
    /\ cht.mu <=> (cht.errLock + cht.imgLock = 1)

\* C24: downloadChapter eventually returns for every number of images, more
\* than 10 included, when each fetch and write returns.  Every slot of the
\* semaphore is held by a task that has acquired it and not yet returned
\* (a task that returns after a fetch failure, a write failure or a success
\* has freed its slot), and the mutex is held only by a task between its
\* mu.Lock() and mu.Unlock(), which is neither waiting for a slot nor in a
\* fetch or a write.
C24_ChapterReturns ==
    /\ [](SlotsAreHeld /\ MuHeldOnlyForRecord)
    /\ [](cht.pc = "returned" => (cht.slots = 0 /\ ~cht.mu))
    /\ <>(cht.pc = "returned")

C24_Witness ==
    /\ cht.pc = "wait"
    /\ cht.n > SemaphoreSize
    /\ cht.start = 1
    /\ cht.slots = SemaphoreSize
    /\ cht.errWait > 0
    /\ cht.write > 0
    /\ cht.imgLock = 1

(***************************************************************************)
(* Chapter-image claims, checked under SpecChapterImages                   *)
(***************************************************************************)

\* The integer written before the extension, whatever the extension.
NumberBeforeExt(filename) == Atoi(SubSeq(filename, 1, Len(filename) - 1))

\* C25: in the Chapter returned by getChapterImages the filenames stand in
\* ascending order of the integer written immediately before the
\* extension, ImageURLs is as long as ImageNames, and the i-th URL is
\* https://{image host}/media/photos/{chapter id}/{i-th filename}.
C25_NamesInNumericOrder ==
    gci.pc = "done" =>
        /\ \A i, j \in 1..Len(gci.ImageNames) :
              i < j => NumberBeforeExt(gci.ImageNames[i])
                          <= NumberBeforeExt(gci.ImageNames[j])
        /\ Len(gci.ImageURLs) = Len(gci.ImageNames)
        /\ \A i \in 1..Len(gci.ImageNames) :
              gci.ImageURLs[i] =
                  <<"https://", gci.DataOrigDomain, "/media/photos/",
                    gci.photoID, "/">> \o gci.ImageNames[i]

(***************************************************************************)
(* Document claims, checked under SpecSinglePDF                            *)
(***************************************************************************)
RECURSIVE EmbeddedUpTo(_, _)
EmbeddedUpTo(images, k) ==
    IF k = 0 THEN <<>>
    ELSE IF images[k] = "embedded"
    THEN Append(EmbeddedUpTo(images, k - 1), [of |-> k, drawn |-> TRUE])
    ELSE EmbeddedUpTo(images, k - 1)

\* C26: an image that cannot be read, decoded or embedded is skipped and
\* the loop goes on to the end of the chunk; the written document holds
\* one page for each embedded image, in input order, and no page for a
\* skipped image.
C26_OnePagePerEmbeddedImage ==
    (doc.pc = "done" /\ doc.ret = "nil") =>
        /\ doc.i = Len(doc.images) + 1
        /\ doc.pages = EmbeddedUpTo(doc.images, Len(doc.images))

(***************************************************************************)
(* Reuse claims, checked under SpecSharedDir                               *)
(***************************************************************************)

\* C28: when DownloadComic returns the files found in the work directory,
\* the list has exactly comic.Pages images, the k-th with index k-1 and
\* with the complete content of that page, also while the directory holds
\* temporary files of a CreatePDF call or files another DownloadComic call
\* is writing.
C28_ReusedListIsComplete ==
    (dl.pc = "done" /\ dl.reused) =>
        /\ Len(dl.ret.images) = Pages(comic)
        /\ \A k \in 1..Len(dl.ret.images) :
              /\ dl.ret.images[k].Index = k - 1
              /\ dl.ret.images[k].Data = PageAt(comic.sizes, k - 1)

\* C29: every path returned by a successful CreatePDF call holds a document
\* with exactly the images of its chunk under the maxPagesPerFile and the
\* image list of that call, also after earlier calls for the same work made
\* with another maxPagesPerFile or another image list.
C29_ReturnedFilesHoldTheirChunk ==
    (pdf.pc = "done" /\ pdf.ret.ok) =>
        \A i \in 1..Len(pdf.ret.paths) :
            /\ pdf.ret.paths[i] \in DOMAIN fs
            /\ fs[pdf.ret.paths[i]].range
                  = ChunkRange(pdf.n, pdf.maxPages, i - 1)

(***************************************************************************)
(* Whitelist claims, checked under SpecWhitelist                           *)
(***************************************************************************)

\* C30: removing an id never grants access.  After
\* RemoveFromWhitelist(isGroup, a), every id b that CheckWhitelist refused
\* before is still refused, and a itself is refused when the list was in
\* force (not empty) before the removal.
C30_RemovalNeverGrants ==
    wl.op = "remove" =>
        /\ \A b \in WhitelistIds :
              ~CheckWhitelist(wl.before, wl.isGroup, b) =>
                  ~CheckWhitelist(wl.lists, wl.isGroup, b)
        /\ Len(ListOf(wl.before, wl.isGroup)) > 0 =>
              ~CheckWhitelist(wl.lists, wl.isGroup, wl.id)

====
